---- MODULE Spec2Model ----
(***************************************************************************)
(* The reconciliation worker of the ClickHouse operator                    *)
(* (pkg/controller/chi/worker.go): the work loop run(), the classifier     *)
(* processItem(), updateCHI(), the reconcile walk and the per-host         *)
(* exclude -> mutate -> include protocol, over a platform that holds the   *)
(* owned objects of one ClickHouseInstallation.                            *)
(***************************************************************************)
EXTENDS Integers, Sequences, FiniteSets, TLC

\* The nil error.
Nil == "nil"

---------------------------------------------------------------------------
\* Bounds of the model.

\* Items the worker dequeues in one behaviour.
MaxItems == 3
\* Platform / Schemer calls that fail in one behaviour.
MaxFailures == 1

---------------------------------------------------------------------------
\* The installations the informer can hand to the worker.

\* A layout gives the number of hosts (replicas) of each shard of the one cluster.
LayoutSmall == <<1, 1>>
LayoutFull == <<2, 1>>

Policies == {"Wait", "NoWait", ""}

\* Desired installations (the spec of a CHI): scale-up is Small -> Full, a
\* StatefulSet change is ver 1 -> 2.
CHIs ==
    { [layout |-> LayoutSmall, ver |-> 1, policy |-> "", stop |-> FALSE],
      [layout |-> LayoutFull, ver |-> 1, policy |-> "", stop |-> FALSE],
      [layout |-> LayoutFull, ver |-> 2, policy |-> "", stop |-> FALSE] }

\* The empty CHI normalize(nil) gives (no cluster).
EmptyCHI == [layout |-> <<>>, ver |-> 0, policy |-> "", stop |-> FALSE]

ShardsOf(chi) == 1..Len(chi.layout)

HostsOfShard(chi, s) == {<<s, r>> : r \in 1..chi.layout[s]}

HostsOf(chi) == UNION {HostsOfShard(chi, s) : s \in ShardsOf(chi)}

AllHosts == UNION {HostsOf(c) : c \in CHIs}

\* host.GetShard().HostsCount()
HostsCount(chi, h) == chi.layout[h[1]]

---------------------------------------------------------------------------
\* Queue items (the tagged commands of processItem).

Cmds == {"add", "update", "delete", "other"}

\* A CHI object as the API server holds it: its spec, its resource version, whether
\* its deletion timestamp is set, whether it lists the finalizer.
NoObj == [present |-> FALSE, spec |-> EmptyCHI, rv |-> 0, deleting |-> FALSE, fin |-> FALSE]

Obj(spec, rv, deleting, fin) ==
    [present |-> TRUE, spec |-> spec, rv |-> rv, deleting |-> deleting, fin |-> fin]

NoItem == [type |-> "", cmd |-> "", old |-> NoObj, new |-> NoObj]

---------------------------------------------------------------------------
VARIABLES
    pc,          \* where the worker is
    item,        \* the item run() took from the queue
    nGet,        \* items dequeued so far
    qlog,        \* the queue calls the worker made since (and with) the last Get
    handled,     \* the errors given to utilruntime.HandleError for this item
    ret,         \* what processItem returned for this item
    ctxDone,     \* the context is done
    chopConfig,  \* the operator configuration (ReconcileWaitExclude / Include)
    args,        \* the arguments of a helper that is checked on its own
    res,         \* what that helper returned
    chiObj,      \* the CHI in the API server
    attrs,       \* ReconcileAttributes of each host of the CHI being reconciled
    walk,        \* the steps of WalkTillError not yet invoked
    calls,       \* the steps reconcile() invoked in this pass, in order
    deleted,     \* the steps of the delete cascade invoked in this pass, in order
    stepErr,     \* the error a step of the walk returned
    reconcileRet,\* what reconcile() returned
    hstatus,     \* reconcileHost's local StatefulSetStatus
    removed,     \* hosts of the plan's Removed set not yet deleted
    cmCommon,    \* platform: the CHI common ConfigMap (remote_servers)
    cmUsers,     \* platform: the CHI common users ConfigMap exists
    cmHost,      \* platform: hosts whose ConfigMap exists
    sts,         \* platform: the StatefulSet of each host
    svc,         \* platform: the Services that exist
    tables,      \* HostCreateTables calls per host in this pass
    watched,     \* the CHI is in the monitoring set
    status,      \* CHI.Status of the object being processed
    stored,      \* CHI.Status as last written to the API server
    announced,   \* reconcile-failed events announced for this item
    nFail,       \* failed calls so far
    hx           \* history of the exclude/include protocol of the current host

vars ==
    << pc, item, nGet, qlog, handled, ret, ctxDone, chopConfig, args, res, chiObj, attrs, walk,
       calls, deleted, stepErr, reconcileRet, hstatus, removed, cmCommon, cmUsers, cmHost,
       sts, svc, tables, watched, status, stored, announced, nFail, hx >>

\* The CHI the pass reconciles: normalize(new) of the dequeued item.
new == item.new.spec

\* update := (old != nil) && (new != nil)
update == item.old.present /\ item.new.present

---------------------------------------------------------------------------
\* StatefulSets.

statefulSetStatusModified == "modified"
statefulSetStatusNew == "new"
statefulSetStatusSame == "same"
statefulSetStatusUnknown == "unknown"

StatefulSetStatuses ==
    { statefulSetStatusModified, statefulSetStatusNew,
      statefulSetStatusSame, statefulSetStatusUnknown }

\* A StatefulSet: its StatefulSetVersion label (0: no such label) and its spec.
NoSts == [present |-> FALSE, label |-> 0, spec |-> 0]

\* creator.CreateStatefulSet(host): the desired StatefulSet of a host of chi.
CreateStatefulSet(chi) == [present |-> TRUE, label |-> chi.ver, spec |-> chi.ver]

\* getStatefulSetStatus, given what w.c.getStatefulSet returned: cur (NoSts for
\* nil) and err (Nil, "NotFound" or another error).
getStatefulSetStatus(cur, err, desired) ==
    IF cur.present /\ cur.label # 0 /\ desired.label # 0 /\ cur.label = desired.label
    THEN statefulSetStatusSame
    ELSE IF cur.present /\ cur.spec = desired.spec
    THEN statefulSetStatusModified
    ELSE IF err = "NotFound"
    THEN statefulSetStatusNew
    ELSE statefulSetStatusUnknown

\* What w.c.getStatefulSet can return for a stored object, with budget failures left.
GetStatefulSet(cur, budget) ==
    { [cur |-> cur, err |-> IF cur.present THEN Nil ELSE "NotFound", cost |-> 0] }
    \cup { [cur |-> NoSts, err |-> "error", cost |-> 1] : x \in {1} \cap (1..budget) }

---------------------------------------------------------------------------
\* Exclude / include decisions.

shouldWaitExcludeHostNoShardCheck(chi, h, st) ==
    IF (st = statefulSetStatusNew) \/ (st = statefulSetStatusSame)
    THEN FALSE
    ELSE IF chi.policy = "Wait"
    THEN TRUE
    ELSE IF chi.policy = "NoWait"
    THEN FALSE
    ELSE IF ~chopConfig.ReconcileWaitExclude
    THEN FALSE
    ELSE TRUE

shouldWaitExcludeHost(chi, h, st) ==
    IF (st = statefulSetStatusNew) \/ (st = statefulSetStatusSame)
    THEN FALSE
    ELSE IF HostsCount(chi, h) = 1
    THEN FALSE
    ELSE IF chi.policy = "Wait"
    THEN TRUE
    ELSE IF chi.policy = "NoWait"
    THEN FALSE
    ELSE IF ~chopConfig.ReconcileWaitExclude
    THEN FALSE
    ELSE TRUE

shouldWaitIncludeHost(chi, h, st) ==
    IF (st = statefulSetStatusNew) \/ (st = statefulSetStatusSame)
    THEN FALSE
    ELSE IF HostsCount(chi, h) = 1
    THEN FALSE
    ELSE IF chi.policy = "Wait"
    THEN TRUE
    ELSE IF chi.policy = "NoWait"
    THEN FALSE
    ELSE IF chopConfig.ReconcileWaitInclude = FALSE
    THEN FALSE
    ELSE TRUE

---------------------------------------------------------------------------
\* ReconcileAttributes and the action plan.

NoAttrs ==
    [add |-> FALSE, modify |-> FALSE, unclear |-> FALSE, migrate |-> FALSE,
     reconciled |-> FALSE]

\* NewActionPlan(old, new): the host sets of the plan.
AddedHosts(old, nw) == HostsOf(nw) \ HostsOf(old)

RemovedHosts(old, nw) == HostsOf(old) \ HostsOf(nw)

ModifiedHosts(old, nw) ==
    {h \in HostsOf(old) \cap HostsOf(nw) : old.ver # nw.ver}

HasActionsToDo(old, nw) == old # nw

StampAttributesUnclearUnlessAdded(old, nw, upd) ==
    [h \in AllHosts |->
        IF h \notin HostsOf(nw) THEN NoAttrs
        ELSE LET a == h \in AddedHosts(old, nw)
                 m == h \in ModifiedHosts(old, nw)
             IN [add |-> a, modify |-> m, unclear |-> ~a, migrate |-> upd,
                 reconciled |-> FALSE]]

\* The attributes updateCHI stamps on the hosts of new before reconcile().
StampAttributes(old, nw, upd) ==
    [h \in AllHosts |->
        IF h \notin HostsOf(nw) THEN NoAttrs
        ELSE LET a == h \in AddedHosts(old, nw)
                 m == h \in ModifiedHosts(old, nw)
             IN [add |-> a, modify |-> m, unclear |-> ~a /\ ~m, migrate |-> upd,
                 reconciled |-> FALSE]]

---------------------------------------------------------------------------
\* The CHI common ConfigMap: the hosts remote_servers lists, and the hosts the
\* generator was told to leave out with ExcludeHost.

NoCM == [present |-> FALSE, listed |-> {}, excl |-> {}]

\* ClickHouseConfigFilesGeneratorOptions: nil options exclude nothing.
NilOptions == [excludeHosts |-> {}, excludeAdd |-> FALSE]

\* The options excludeHost builds.
excludeHostOptionsKeepStored(h) ==
    [excludeHosts |-> cmCommon.excl \cup {h}, excludeAdd |-> TRUE]

excludeHostOptions(h) == [excludeHosts |-> {h}, excludeAdd |-> TRUE]

\* The options includeHost builds.
includeHostOptions == [excludeHosts |-> {}, excludeAdd |-> TRUE]

\* creator.CreateConfigMapCHICommon(options)
CreateConfigMapCHICommon(chi, options) ==
    [present |-> TRUE,
     listed |-> {h \in HostsOf(chi) :
                    /\ h \notin options.excludeHosts
                    /\ ~(options.excludeAdd /\ attrs[h].add)},
     excl |-> options.excludeHosts \cap HostsOf(chi)]

\* schemer.IsHostInCluster(host): the host is in the applied remote_servers.
IsHostInCluster(h) == cmCommon.present /\ h \in cmCommon.listed

---------------------------------------------------------------------------
\* The reconcile walk.

Step(f, s, r) == [f |-> f, s |-> s, r |-> r]

RECURSIVE HostSteps(_, _, _, _)
HostSteps(chi, fHost, s, r) ==
    IF r > chi.layout[s] THEN <<>>
    ELSE <<Step(fHost, s, r)>> \o HostSteps(chi, fHost, s, r + 1)

RECURSIVE ShardSteps(_, _, _, _)
ShardSteps(chi, fShard, fHost, s) ==
    IF s > Len(chi.layout) THEN <<>>
    ELSE <<Step(fShard, s, 0)>> \o HostSteps(chi, fHost, s, 1)
         \o ShardSteps(chi, fShard, fHost, s + 1)

\* chi.WalkTillError(ctx, fCHIPreliminary, fCluster, fShard, fHost, fCHI): the calls
\* it makes when no one returns an error, in order.
WalkTillError(chi, fCHIPreliminary, fCluster, fShard, fHost, fCHI) ==
    <<Step(fCHIPreliminary, 0, 0)>>
    \o (IF Len(chi.layout) = 0 THEN <<>>
        ELSE <<Step(fCluster, 0, 0)>> \o ShardSteps(chi, fShard, fHost, 1))
    \o <<Step(fCHI, 0, 0)>>

\* WalkTillError stops at the first non-nil error: what is left to call after a
\* step returned err.
WalkTillErrorRest(w, err) == IF err # Nil THEN <<>> ELSE Tail(w)

reconcileFinalFirst(chi) ==
    WalkTillError(chi, "reconcileCHIAuxObjectsFinal", "reconcileCluster",
                  "reconcileShard", "reconcileHost", "reconcileCHIAuxObjectsPreliminary")

\* reconcile(): the callbacks it hands to WalkTillError.
reconcile(chi) ==
    WalkTillError(chi, "reconcileCHIAuxObjectsPreliminary", "reconcileCluster",
                  "reconcileShard", "reconcileHost", "reconcileCHIAuxObjectsFinal")

\* Where reconcileHost goes after one of its calls returned err (nxt: the next call).
reconcileHostNextIgnoreErr(err, nxt) == nxt

reconcileHostNext(err, nxt) == IF err # Nil THEN "walk" ELSE nxt

---------------------------------------------------------------------------
\* Platform calls and their outcomes. budget is the number of calls that may
\* still fail; cost is the number of calls that failed in the outcome.

Budget == MaxFailures - nFail

ServiceCHI == <<"chi", 0, 0>>
ServiceCluster == <<"cluster", 0, 0>>
ServiceShard(s) == <<"shard", s, 0>>
ServiceHost(h) == <<"host", h[1], h[2]>>

\* reconcileService(service): fetch; update when it exists; on any error delete
\* and create.
reconcileService(name, budget) ==
    IF name \in svc
    THEN { [svc |-> svc, err |-> Nil, cost |-> 0] }
         \cup { [svc |-> svc, err |-> Nil, cost |-> 1] : x \in {1} \cap (1..budget) }
         \cup { [svc |-> svc \ {name}, err |-> "service", cost |-> 2] :
                    x \in {2} \cap (1..budget) }
    ELSE { [svc |-> svc \cup {name}, err |-> Nil, cost |-> 0] }
         \cup { [svc |-> svc, err |-> "service", cost |-> 1] : x \in {1} \cap (1..budget) }

\* reconcileConfigMap(configMap, update) on a stored ConfigMap that is present or
\* not: whether the new content got written, and the error returned.
reconcileConfigMap(present, upd, budget) ==
    IF present /\ ~upd
    THEN { [written |-> FALSE, err |-> Nil, cost |-> 0] }
    ELSE { [written |-> TRUE, err |-> Nil, cost |-> 0] }
         \cup { [written |-> FALSE, err |-> "configmap", cost |-> 1] :
                    x \in {1} \cap (1..budget) }

\* reconcileCHIConfigMaps(chi, options, update): the common ConfigMap, then the
\* users one.
reconcileCHIConfigMaps(chi, options, upd, budget) ==
    UNION {
        IF o1.err # Nil
        THEN { [cmCommon |-> cmCommon, cmUsers |-> cmUsers, applied |-> FALSE,
                err |-> o1.err, cost |-> o1.cost] }
        ELSE { [cmCommon |-> IF o1.written
                             THEN CreateConfigMapCHICommon(chi, options)
                             ELSE cmCommon,
                cmUsers |-> o2.written \/ cmUsers, applied |-> o1.written,
                err |-> o2.err, cost |-> o1.cost + o2.cost] :
                    o2 \in reconcileConfigMap(cmUsers, upd, budget - o1.cost) }
        : o1 \in reconcileConfigMap(cmCommon.present, upd, budget) }

\* c.updateCHIObjectStatus(ctx, chi): the status the API server holds afterwards.
updateCHIObjectStatus(st, budget) ==
    IF ctxDone
    THEN { [stored |-> stored, err |-> Nil, cost |-> 0] }
    ELSE { [stored |-> st, err |-> Nil, cost |-> 0] }
         \cup { [stored |-> stored, err |-> "status", cost |-> 1] :
                    x \in {1} \cap (1..budget) }

---------------------------------------------------------------------------
\* CHI.Status.

NoStatus == [phase |-> "", added |-> 0, updated |-> 0, deleted |-> 0, toDelete |-> 0]

ReconcileStart(n) ==
    [phase |-> "InProgress", added |-> 0, updated |-> 0, deleted |-> 0, toDelete |-> n]

ReconcileComplete(st) == [st EXCEPT !.phase = "Completed"]

DeleteStart ==
    [phase |-> "Terminating", added |-> 0, updated |-> 0, deleted |-> 0, toDelete |-> 0]

---------------------------------------------------------------------------
\* The state after newWorker(): nothing dequeued, an empty platform.

NoHx ==
    [h |-> <<0, 0>>, waitExclude |-> FALSE, waitInclude |-> FALSE, wrote |-> FALSE,
     exclApplied |-> FALSE, obsOut |-> FALSE, inclApplied |-> FALSE, obsIn |-> FALSE,
     earlyWrite |-> FALSE, stsCalls |-> <<>>, schemerErrs |-> 0]

NoArgs == <<>>

InitRest ==
    /\ nGet = 0
    /\ res = NoArgs
    /\ qlog = <<>>
    /\ handled = <<>>
    /\ ret = Nil
    /\ ctxDone = FALSE
    /\ chiObj = NoObj
    /\ attrs = [h \in AllHosts |-> NoAttrs]
    /\ walk = <<>>
    /\ calls = <<>>
    /\ deleted = <<>>
    /\ stepErr = Nil
    /\ reconcileRet = Nil
    /\ removed = <<>>
    /\ cmCommon = NoCM
    /\ cmUsers = FALSE
    /\ cmHost = {}
    /\ sts = [h \in AllHosts |-> NoSts]
    /\ svc = {}
    /\ tables = [h \in AllHosts |-> 0]
    /\ watched = FALSE
    /\ status = NoStatus
    /\ stored = NoStatus
    /\ announced = <<>>
    /\ nFail = 0
    /\ hx = NoHx

ChopConfigs == [ReconcileWaitExclude : BOOLEAN, ReconcileWaitInclude : BOOLEAN]

Init ==
    /\ InitRest
    /\ pc = "get"
    /\ item = NoItem
    /\ hstatus = statefulSetStatusUnknown
    /\ chopConfig \in ChopConfigs
    /\ args = NoArgs

passVars == <<attrs, walk, calls, deleted, stepErr, reconcileRet, hstatus, removed, tables, hx>>
platformVars == <<cmCommon, cmUsers, cmHost, sts, svc>>
statusVars == <<status, stored>>

---------------------------------------------------------------------------
\* run(): the work loop.

CHIItem(cmd, old, nw) == [type |-> "ReconcileCHI", cmd |-> cmd, old |-> old, new |-> nw]

\* What the informers can put in the queue, with the CHI object the API server
\* holds once the item is there.
QueueItems ==
    (IF ~chiObj.present
     THEN { [item |-> CHIItem("add", NoObj, Obj(c, 1, FALSE, FALSE)),
             obj |-> Obj(c, 1, FALSE, FALSE)] : c \in CHIs }
     ELSE { [item |-> CHIItem("update", chiObj, [chiObj EXCEPT !.spec = c, !.rv = @ + 1]),
             obj |-> [chiObj EXCEPT !.spec = c, !.rv = @ + 1]] :
                c \in {x \in CHIs : x # chiObj.spec /\ ~chiObj.deleting} }
          \cup { [item |-> CHIItem("update", chiObj, chiObj), obj |-> chiObj],
                 [item |-> CHIItem("update", chiObj, [chiObj EXCEPT !.rv = @ + 1]),
                  obj |-> [chiObj EXCEPT !.rv = @ + 1]],
                 [item |-> CHIItem("add", NoObj, chiObj), obj |-> chiObj],
                 [item |-> CHIItem("update", chiObj,
                                   [chiObj EXCEPT !.deleting = TRUE, !.rv = @ + 1]),
                  obj |-> [chiObj EXCEPT !.deleting = TRUE, !.rv = @ + 1]],
                 [item |-> CHIItem("other", chiObj, chiObj), obj |-> chiObj] }
          \cup { [item |-> CHIItem("delete", chiObj, NoObj), obj |-> NoObj] :
                    x \in {1} \cap (IF chiObj.fin THEN {} ELSE {1}) })
    \cup { [item |-> [type |-> t, cmd |-> c, old |-> NoObj, new |-> NoObj], obj |-> chiObj] :
              t \in {"ReconcileCHIT", "ReconcileChopConfig"}, c \in Cmds }
    \cup { [item |-> [type |-> t, cmd |-> "", old |-> NoObj, new |-> NoObj], obj |-> chiObj] :
              t \in {"DropDns", "Unknown"} }

\* item, shutdown := w.queue.Get() with shutdown false.
Get ==
    /\ pc = "get"
    /\ nGet < MaxItems
    /\ \E q \in QueueItems :
        /\ item' = q.item
        /\ chiObj' = q.obj
    /\ nGet' = nGet + 1
    /\ qlog' = <<"Get">>
    /\ handled' = <<>>
    /\ announced' = <<>>
    /\ ret' = Nil
    /\ pc' = "process"
    \* the locals of the previous processItem call are gone
    /\ attrs' = [h \in AllHosts |-> NoAttrs]
    /\ walk' = <<>>
    /\ calls' = <<>>
    /\ deleted' = <<>>
    /\ stepErr' = Nil
    /\ reconcileRet' = Nil
    /\ hstatus' = statefulSetStatusUnknown
    /\ removed' = <<>>
    /\ tables' = [h \in AllHosts |-> 0]
    /\ hx' = NoHx
    /\ UNCHANGED <<ctxDone, chopConfig, args, res, platformVars, watched, statusVars, nFail>>

\* Get() returned shutdown: run() returns.
Shutdown ==
    /\ pc = "get"
    /\ pc' = "stopped"
    /\ UNCHANGED <<item, nGet, qlog, handled, ret, ctxDone, chopConfig, args, res, chiObj, passVars,
                   platformVars, watched, statusVars, announced, nFail>>

runSkipForgetOnError(err) == IF err # Nil THEN "get" ELSE "forget"

\* Where run() goes once processItem returned err: HandleError(err) when it is not
\* nil, and then Forget in every case.
runAfterProcessItem(err) == "forget"

\* processItem returns err to run().
Return(err) ==
    /\ ret' = err
    /\ handled' = IF err # Nil THEN Append(handled, err) ELSE handled
    /\ pc' = runAfterProcessItem(err)

\* w.queue.Forget(item)
Forget ==
    /\ pc = "forget"
    /\ qlog' = Append(qlog, "Forget")
    /\ pc' = "done"
    /\ UNCHANGED <<item, nGet, handled, ret, ctxDone, chopConfig, args, res, chiObj, passVars,
                   platformVars, watched, statusVars, announced, nFail>>

\* w.queue.Done(item)
Done ==
    /\ pc = "done"
    /\ qlog' = Append(qlog, "Done")
    /\ pc' = "get"
    /\ UNCHANGED <<item, nGet, handled, ret, ctxDone, chopConfig, args, res, chiObj, passVars,
                   platformVars, watched, statusVars, announced, nFail>>

\* The context given to processItem becomes done.
Cancel ==
    /\ ~ctxDone
    /\ pc # "stopped"
    /\ ctxDone' = TRUE
    /\ UNCHANGED <<pc, item, nGet, qlog, handled, ret, chopConfig, args, res, chiObj, passVars,
                   platformVars, watched, statusVars, announced, nFail>>

---------------------------------------------------------------------------
\* processItem(): the classifier.

\* The items whose handlers are the controller's (addChit, updateChit, ...,
\* CHIDropDnsCache) and the items processItem does not know.
ProcessOther ==
    /\ pc = "process"
    /\ \/ /\ ctxDone
          /\ Return(Nil)
       \/ /\ ~ctxDone
          /\ item.type \in {"ReconcileCHIT", "ReconcileChopConfig"}
          /\ item.cmd # "other"
          /\ \E e \in {Nil, "handler"} : Return(e)
       \/ /\ ~ctxDone
          /\ item.type \in {"ReconcileCHI", "ReconcileCHIT", "ReconcileChopConfig"}
          /\ item.cmd = "other"
          /\ ret' = Nil
          /\ handled' = Append(handled, "unexpected reconcile")
          /\ pc' = runAfterProcessItem(Nil)
       \/ /\ ~ctxDone
          /\ item.type = "DropDns"
          /\ Return(Nil)
       \/ /\ ~ctxDone
          /\ item.type = "Unknown"
          /\ ret' = Nil
          /\ handled' = Append(handled, "unexpected item")
          /\ pc' = runAfterProcessItem(Nil)
    /\ UNCHANGED <<item, nGet, qlog, ctxDone, chopConfig, args, res, chiObj, passVars,
                   platformVars, watched, statusVars, announced, nFail>>

\* case *ReconcileCHI: updateCHI(nil, new), updateCHI(old, new) or deleteCHI(old).
ProcessCHI ==
    /\ pc = "process"
    /\ ~ctxDone
    /\ item.type = "ReconcileCHI"
    /\ item.cmd \in {"add", "update", "delete"}
    /\ pc' = IF item.cmd = "delete" THEN "deleteCHI" ELSE "updateCHI"
    /\ status' = stored
    /\ UNCHANGED <<item, nGet, qlog, handled, ret, ctxDone, chopConfig, args, res, chiObj, passVars,
                   platformVars, watched, stored, announced, nFail>>

---------------------------------------------------------------------------
\* updateCHI(), up to the call of reconcile().

\* old as normalize(old) gives it to NewActionPlan.
oldCHI == IF item.old.present THEN item.old.spec ELSE EmptyCHI

\* ensureFinalizer(new): installFinalizer is called whether or not the finalizer
\* is listed; a failure is logged only.
ensureFinalizer(obj, budget) ==
    IF ~obj.present
    THEN { [obj |-> obj, cost |-> 0] }
    ELSE { [obj |-> [obj EXCEPT !.fin = TRUE], cost |-> 0] }
         \cup { [obj |-> obj, cost |-> 1] : x \in {1} \cap (IF obj.fin THEN {} ELSE 1..budget) }

\* What updateCHI returns when reconcile() returned err: the failure is announced
\* and nil is returned.
updateCHIResult(err) == Nil

ResourceVersionUnchangedNever(old, nw) == FALSE

\* update && (old.ObjectMeta.ResourceVersion == new.ObjectMeta.ResourceVersion)
ResourceVersionUnchanged(old, nw) == old.present /\ nw.present /\ old.rv = nw.rv

DeletionTimestampIsZeroAlways(obj) == TRUE

\* new.ObjectMeta.DeletionTimestamp.IsZero(): the object is not being deleted.
DeletionTimestampIsZero(obj) == ~obj.deleting

UpdateCHI ==
    /\ pc = "updateCHI"
    /\ \/ /\ ResourceVersionUnchanged(item.old, item.new)
          /\ Return(Nil)
          /\ UNCHANGED <<chiObj, passVars, watched, statusVars, nFail>>
       \/ /\ ~ResourceVersionUnchanged(item.old, item.new)
          /\ ~DeletionTimestampIsZero(item.new)
          /\ pc' = "finalizeCHI"
          /\ UNCHANGED <<ret, handled, chiObj, passVars, watched, statusVars, nFail>>
       \/ /\ ~ResourceVersionUnchanged(item.old, item.new)
          /\ DeletionTimestampIsZero(item.new)
          /\ \E fo \in ensureFinalizer(chiObj, Budget) :
              /\ chiObj' = fo.obj
              /\ IF ~HasActionsToDo(oldCHI, new)
                 THEN /\ Return(Nil)
                      /\ nFail' = nFail + fo.cost
                      /\ UNCHANGED <<passVars, watched, statusVars>>
                 ELSE LET st == ReconcileStart(Cardinality(RemovedHosts(oldCHI, new)))
                      IN \E so \in updateCHIObjectStatus(st, Budget - fo.cost) :
                          /\ status' = st
                          /\ stored' = so.stored
                          /\ nFail' = nFail + fo.cost + so.cost
                          /\ IF so.err # Nil
                             THEN /\ Return(Nil)
                                  /\ UNCHANGED <<passVars, watched>>
                             ELSE /\ watched' = IF new.stop THEN FALSE ELSE watched
                                  /\ attrs' = StampAttributes(oldCHI, new, update)
                                  /\ walk' = reconcile(new)
                                  /\ calls' = <<>>
                                  /\ stepErr' = Nil
                                  /\ reconcileRet' = Nil
                                  /\ removed' = <<>>
                                  /\ tables' = [h \in AllHosts |-> 0]
                                  /\ hx' = NoHx
                                  /\ pc' = "walk"
                                  /\ UNCHANGED <<ret, handled, hstatus>>
    /\ UNCHANGED <<item, nGet, qlog, ctxDone, chopConfig, deleted, args, res, platformVars, announced>>

---------------------------------------------------------------------------
\* Deletion: deleteCHI() with deleteCluster, deleteShard and deleteHost, and
\* finalizeCHI().

CurStep == Head(walk)

\* The host reconcileHost is working on.
CurHost == <<CurStep.s, CurStep.r>>

\* deleteShard for every shard of the cluster: deleteHost for each of its hosts,
\* then the shard's Service.
RECURSIVE deleteShardSteps(_, _)
deleteShardSteps(chi, s) ==
    IF s > Len(chi.layout) THEN <<>>
    ELSE HostSteps(chi, "deleteHost", s, 1) \o <<Step("deleteServiceShard", s, 0)>>
         \o deleteShardSteps(chi, s + 1)

\* The calls deleteCHI(chi) makes after deleteWatch, in order, when the context
\* stays live.
deleteCHISteps(chi) ==
    (IF Len(chi.layout) = 0 THEN <<>>
     ELSE deleteShardSteps(chi, 1) \o <<Step("deleteServiceCluster", 0, 0)>>)
    \o <<Step("deleteConfigMapsCHI", 0, 0), Step("deleteServiceCHI", 0, 0)>>

deleteHostRestTillError(w, err) == IF err # Nil THEN <<>> ELSE Tail(w)

\* What is left of the cascade once deleteHost returned err: WalkHosts, WalkShards
\* and WalkClusters go on, deleteShard and deleteCluster return nil.
deleteHostRest(w, err) == Tail(w)

\* finalizeCHI goes on to uninstallFinalizer whatever deleteCHI returned.
finalizeCHIAfterDelete(err) ==
    /\ pc' = "uninstallFinalizer"
    /\ UNCHANGED <<ret, handled>>

\* deleteCHI returns err: to processItem for a delete item, to finalizeCHI
\* otherwise.
deleteCHIReturns(err) ==
    IF item.cmd = "delete" THEN Return(err) ELSE finalizeCHIAfterDelete(err)

\* deleteCHI(chi) up to the walk over the clusters.
deleteCHIStart(chi) ==
    \/ /\ ctxDone
       /\ deleteCHIReturns(Nil)
       /\ UNCHANGED <<walk, deleted, watched, nFail>>
    \/ /\ ~ctxDone
       /\ nFail < MaxFailures
       /\ nFail' = nFail + 1
       /\ deleteCHIReturns("normalize")
       /\ UNCHANGED <<walk, deleted, watched>>
    \/ /\ ~ctxDone
       /\ watched' = FALSE
       /\ walk' = deleteCHISteps(chi)
       /\ deleted' = <<>>
       /\ pc' = "deleteWalk"
       /\ UNCHANGED <<ret, handled, nFail>>

\* case reconcileDelete: deleteCHI(old). A CHI that cannot be normalized is the
\* one error deleteCHI returns.
DeleteCHI ==
    /\ pc = "deleteCHI"
    /\ deleteCHIStart(item.old.spec)
    /\ UNCHANGED <<item, nGet, qlog, ctxDone, chopConfig, args, res, chiObj, attrs, calls,
                   stepErr, reconcileRet, hstatus, removed, tables, hx, platformVars,
                   statusVars, announced>>

finalizeCHISkipsNever(cur, chi) == FALSE

\* finalizeCHI returns nil at once when the CHI fetched anew is not there and
\* when chi does not list the finalizer.
finalizeCHISkips(cur, chi) == ~cur.present \/ ~chi.fin

\* finalizeCHI(new): entered by updateCHI for a CHI with a deletion timestamp.
FinalizeCHI ==
    /\ pc = "finalizeCHI"
    /\ \/ /\ ctxDone \/ finalizeCHISkips(chiObj, item.new)
          /\ Return(Nil)
          /\ UNCHANGED <<walk, deleted, watched, statusVars, nFail>>
       \/ /\ ~ctxDone /\ ~finalizeCHISkips(chiObj, item.new)
          /\ nFail < MaxFailures
          /\ nFail' = nFail + 1
          /\ \/ /\ Return(Nil)
                /\ UNCHANGED <<walk, deleted, watched, statusVars>>
             \/ /\ status' = DeleteStart
                /\ Return(Nil)
                /\ UNCHANGED <<walk, deleted, watched, stored>>
       \/ /\ ~ctxDone /\ ~finalizeCHISkips(chiObj, item.new)
          /\ status' = DeleteStart
          /\ stored' = DeleteStart
          /\ deleteCHIStart(new)
    /\ UNCHANGED <<item, nGet, qlog, ctxDone, chopConfig, args, res, chiObj, attrs, calls,
                   stepErr, reconcileRet, hstatus, removed, tables, hx, platformVars,
                   announced>>

\* The tolerant status write of deleteHost: the CHI of a delete item is gone.
deleteHostStatus(st) == IF item.cmd = "delete" THEN stored ELSE st

\* host.CanDeleteAllPVCs(): the hosts of the first shard use volume claim
\* templates whose PVCs go with the host, those of the other shards retain them.
CanDeleteAllPVCs(h) == h[1] = 1

deleteHostCallsObjectsFirst(h) ==
    <<Step("c.deleteHost", h[1], h[2])>>
    \o (IF CanDeleteAllPVCs(h) THEN <<Step("HostDeleteTables", h[1], h[2])>> ELSE <<>>)

\* The calls of deleteHost on a host whose StatefulSet was fetched: deleteTables,
\* which drops the tables when the host may delete all its PVCs, then
\* c.deleteHost for the platform objects.
deleteHostCalls(h) ==
    (IF CanDeleteAllPVCs(h) THEN <<Step("HostDeleteTables", h[1], h[2])>> ELSE <<>>)
    \o <<Step("c.deleteHost", h[1], h[2])>>

deleteHostSkipsNever(err) == FALSE

\* if _, err := w.c.getStatefulSetByHost(host); err != nil { ...; return nil }
deleteHostSkips(err) == err # Nil

\* deleteHost(host) of the cascade: nothing on a done context or when the
\* StatefulSet cannot be fetched; else deleteTables and c.deleteHost, of which only
\* the error of the latter is returned.
DeleteHostStep ==
    /\ pc = "deleteWalk"
    /\ walk # <<>>
    /\ CurStep.f = "deleteHost"
    /\ \/ /\ ctxDone
          /\ walk' = Tail(walk)
          /\ UNCHANGED <<deleted, sts, cmHost, svc, statusVars, nFail>>
       \/ /\ ~ctxDone
          /\ \E g \in GetStatefulSet(sts[CurHost], Budget) :
              IF deleteHostSkips(g.err)
              THEN /\ deleted' = Append(deleted, CurStep)
                   /\ walk' = deleteHostRest(walk, Nil)
                   /\ nFail' = nFail + g.cost
                   /\ UNCHANGED <<sts, cmHost, svc, statusVars>>
              ELSE /\ deleted' = Append(deleted, CurStep) \o deleteHostCalls(CurHost)
                   /\ status' = [status EXCEPT !.deleted = @ + 1]
                   /\ stored' = deleteHostStatus(status')
                   /\ \/ /\ nFail' \in {nFail + g.cost}
                                     \cup (IF nFail + g.cost < MaxFailures
                                           THEN {nFail + g.cost + 1} ELSE {})
                         /\ sts' = [sts EXCEPT ![CurHost] = NoSts]
                         /\ cmHost' = cmHost \ {CurHost}
                         /\ svc' = svc \ {ServiceHost(CurHost)}
                         /\ walk' = deleteHostRest(walk, Nil)
                      \/ /\ nFail + g.cost < MaxFailures
                         /\ nFail' = nFail + g.cost + 1
                         /\ walk' = deleteHostRest(walk, "deleteHost")
                         /\ UNCHANGED <<sts, cmHost, svc>>
    /\ UNCHANGED <<pc, item, nGet, qlog, handled, ret, ctxDone, chopConfig, args, res, chiObj,
                   attrs, calls, stepErr, reconcileRet, hstatus, removed, tables, hx,
                   cmCommon, cmUsers, watched, announced>>

\* The other calls of the cascade: deleteServiceShard, deleteServiceCluster,
\* deleteConfigMapsCHI and deleteServiceCHI. Their errors are dropped. deleteCHI
\* returns when the context is done after the walk over the clusters.
DeleteObjectStep ==
    /\ pc = "deleteWalk"
    /\ walk # <<>>
    /\ CurStep.f # "deleteHost"
    /\ \/ /\ ctxDone
          /\ walk' = IF CurStep.f = "deleteConfigMapsCHI" THEN <<>> ELSE Tail(walk)
          /\ UNCHANGED <<deleted, cmCommon, cmUsers, svc, nFail>>
       \/ /\ ~ctxDone
          /\ deleted' = Append(deleted, CurStep)
          /\ walk' = Tail(walk)
          /\ \/ /\ nFail < MaxFailures
                /\ nFail' = nFail + 1
                /\ UNCHANGED <<cmCommon, cmUsers, svc>>
             \/ /\ cmCommon' = IF CurStep.f = "deleteConfigMapsCHI" THEN NoCM ELSE cmCommon
                /\ cmUsers' = IF CurStep.f = "deleteConfigMapsCHI" THEN FALSE ELSE cmUsers
                /\ svc' = svc \ (CASE CurStep.f = "deleteServiceShard" -> {ServiceShard(CurStep.s)}
                                   [] CurStep.f = "deleteServiceCluster" -> {ServiceCluster}
                                   [] CurStep.f = "deleteServiceCHI" -> {ServiceCHI}
                                   [] OTHER -> {})
                /\ UNCHANGED nFail
    /\ UNCHANGED <<pc, item, nGet, qlog, handled, ret, ctxDone, chopConfig, args, res, chiObj,
                   attrs, calls, stepErr, reconcileRet, hstatus, removed, tables, hx,
                   cmHost, sts, watched, statusVars, announced>>

\* deleteCHI is through with its cascade.
DeleteCHIReturn ==
    /\ pc = "deleteWalk"
    /\ walk = <<>>
    /\ deleteCHIReturns(Nil)
    /\ UNCHANGED <<item, nGet, qlog, ctxDone, chopConfig, args, res, chiObj, passVars,
                   platformVars, watched, statusVars, announced, nFail>>

\* w.c.uninstallFinalizer(chi), the last call of finalizeCHI; its error is logged.
UninstallFinalizer ==
    /\ pc = "uninstallFinalizer"
    /\ \/ /\ chiObj' = [chiObj EXCEPT !.fin = FALSE]
          /\ UNCHANGED nFail
       \/ /\ nFail < MaxFailures
          /\ nFail' = nFail + 1
          /\ UNCHANGED chiObj
    /\ Return(Nil)
    /\ UNCHANGED <<item, nGet, qlog, ctxDone, chopConfig, args, res, passVars, platformVars,
                   watched, statusVars, announced>>

---------------------------------------------------------------------------
\* reconcile(): the steps of the walk.

InStep(f) == pc = "walk" /\ walk # <<>> /\ CurStep.f = f

\* A step returns err to WalkTillError.
StepReturns(err) ==
    /\ stepErr' = IF err # Nil THEN err ELSE stepErr
    /\ walk' = WalkTillErrorRest(walk, err)
    /\ pc' = "walk"

\* reconcileCHIAuxObjectsPreliminary: the CHI Service (deleted when the CHI is
\* stopped), then the CHI ConfigMaps, created when missing and never updated.
reconcileCHIAuxObjectsPreliminary ==
    /\ InStep("reconcileCHIAuxObjectsPreliminary")
    /\ calls' = Append(calls, CurStep)
    /\ \/ /\ ctxDone
          /\ StepReturns(Nil)
          /\ UNCHANGED <<platformVars, nFail>>
       \/ /\ ~ctxDone
          /\ \E so \in (IF new.stop
                        THEN {[svc |-> svc \ {ServiceCHI}, err |-> Nil, cost |-> 0]}
                        ELSE reconcileService(ServiceCHI, Budget)) :
              /\ svc' = so.svc
              /\ IF so.err # Nil
                 THEN /\ StepReturns(so.err)
                      /\ nFail' = nFail + so.cost
                      /\ UNCHANGED <<cmCommon, cmUsers>>
                 ELSE \E co \in reconcileCHIConfigMaps(new, NilOptions, FALSE,
                                                       Budget - so.cost) :
                          /\ cmCommon' = co.cmCommon
                          /\ cmUsers' = co.cmUsers
                          /\ nFail' = nFail + so.cost + co.cost
                          /\ StepReturns(co.err)
          /\ UNCHANGED <<cmHost, sts>>
    /\ UNCHANGED <<item, nGet, qlog, handled, ret, ctxDone, chopConfig, deleted, args, res, chiObj, attrs,
                   reconcileRet, hstatus, removed, tables, hx, watched, statusVars,
                   announced>>

\* reconcileCluster and reconcileShard: the Service of the cluster, of the shard.
reconcileClusterOrShard ==
    /\ InStep("reconcileCluster") \/ InStep("reconcileShard")
    /\ calls' = Append(calls, CurStep)
    /\ \/ /\ ctxDone
          /\ StepReturns(Nil)
          /\ UNCHANGED <<svc, nFail>>
       \/ /\ ~ctxDone
          /\ \E so \in reconcileService(IF CurStep.f = "reconcileCluster"
                                        THEN ServiceCluster
                                        ELSE ServiceShard(CurStep.s), Budget) :
              /\ svc' = so.svc
              /\ nFail' = nFail + so.cost
              /\ StepReturns(so.err)
    /\ UNCHANGED <<item, nGet, qlog, handled, ret, ctxDone, chopConfig, deleted, args, res, chiObj, attrs,
                   reconcileRet, hstatus, removed, tables, hx, cmCommon, cmUsers, cmHost,
                   sts, watched, statusVars, announced>>

\* reconcileCHIAuxObjectsFinal: the CHI ConfigMaps, with update.
reconcileCHIAuxObjectsFinal ==
    /\ InStep("reconcileCHIAuxObjectsFinal")
    /\ calls' = Append(calls, CurStep)
    /\ \/ /\ ctxDone
          /\ StepReturns(Nil)
          /\ UNCHANGED <<cmCommon, cmUsers, nFail>>
       \/ /\ ~ctxDone
          /\ \E co \in reconcileCHIConfigMaps(new, NilOptions, TRUE, Budget) :
              /\ cmCommon' = co.cmCommon
              /\ cmUsers' = co.cmUsers
              /\ nFail' = nFail + co.cost
              /\ StepReturns(co.err)
    /\ UNCHANGED <<item, nGet, qlog, handled, ret, ctxDone, chopConfig, deleted, args, res, chiObj, attrs,
                   reconcileRet, hstatus, removed, tables, hx, cmHost, sts, svc, watched,
                   statusVars, announced>>

---------------------------------------------------------------------------
\* reconcileHost(): exclude -> ConfigMap -> StatefulSet -> volumes -> Service ->
\* tables -> include.

HostPcs ==
    {"ex_cm", "ex_wait", "h_cm", "h_sts", "sts_delete", "sts_create", "h_svc",
     "h_tables", "in_cm", "in_wait"}

\* One of reconcileHost's calls returned err; nxt is the call that follows it.
HostReturns(err, nxt) ==
    /\ stepErr' = IF err # Nil THEN err ELSE stepErr
    /\ pc' = reconcileHostNext(err, nxt)
    /\ walk' = IF reconcileHostNext(err, nxt) = "walk"
               THEN WalkTillErrorRest(walk, err)
               ELSE walk

\* host.ReconcileAttributes.SetReconciled() and return nil.
HostReconciled ==
    /\ attrs' = [attrs EXCEPT ![CurHost].reconciled = TRUE]
    /\ walk' = WalkTillErrorRest(walk, Nil)
    /\ pc' = "walk"

\* Entry of reconcileHost: the artifacts, getStatefulSetStatus, and excludeHost's
\* decision.
reconcileHost ==
    /\ InStep("reconcileHost")
    /\ calls' = Append(calls, CurStep)
    /\ \/ /\ ctxDone
          /\ StepReturns(Nil)
          /\ UNCHANGED <<hstatus, hx, nFail>>
       \/ /\ ~ctxDone
          /\ \E g \in GetStatefulSet(sts[CurHost], Budget) :
              LET st == getStatefulSetStatus(g.cur, g.err, CreateStatefulSet(new))
                  ex == shouldWaitExcludeHost(new, CurHost, st)
              IN /\ hstatus' = st
                 /\ nFail' = nFail + g.cost
                 /\ hx' = [NoHx EXCEPT !.h = CurHost, !.waitExclude = ex,
                                       !.waitInclude =
                                           shouldWaitIncludeHost(new, CurHost, st),
                                       !.schemerErrs = hx.schemerErrs]
                 /\ pc' = IF ex THEN "ex_cm" ELSE "h_cm"
          /\ UNCHANGED <<walk, stepErr>>
    /\ UNCHANGED <<item, nGet, qlog, handled, ret, ctxDone, chopConfig, deleted, args, res, chiObj, attrs,
                   reconcileRet, removed, tables, platformVars, watched, statusVars,
                   announced>>

\* excludeHost: the topology without the host is applied; the result is dropped.
excludeHost ==
    /\ pc = "ex_cm"
    /\ \/ /\ ctxDone
          /\ UNCHANGED <<cmCommon, cmUsers, nFail, hx>>
       \/ /\ ~ctxDone
          /\ \E co \in reconcileCHIConfigMaps(new, excludeHostOptions(CurHost), TRUE,
                                              Budget) :
              /\ cmCommon' = co.cmCommon
              /\ cmUsers' = co.cmUsers
              /\ nFail' = nFail + co.cost
              /\ hx' = [hx EXCEPT !.exclApplied = co.applied]
    /\ pc' = "ex_wait"
    /\ UNCHANGED <<item, nGet, qlog, handled, ret, ctxDone, chopConfig, args, res, chiObj, attrs,
                   walk, calls, deleted, stepErr, reconcileRet, hstatus, removed, tables, cmHost,
                   sts, svc, watched, statusVars, announced>>

\* waitHostNotInCluster: pollHostContext returns once the host is out of the
\* cluster or the context is done; the result is dropped.
waitHostNotInCluster ==
    /\ pc = "ex_wait"
    /\ ctxDone \/ ~IsHostInCluster(CurHost)
    /\ hx' = [hx EXCEPT !.obsOut = ~IsHostInCluster(CurHost)]
    /\ pc' = "h_cm"
    /\ UNCHANGED <<item, nGet, qlog, handled, ret, ctxDone, chopConfig, args, res, chiObj, attrs,
                   walk, calls, deleted, stepErr, reconcileRet, hstatus, removed, tables,
                   platformVars, watched, statusVars, announced, nFail>>

\* The history of a write of one of the host's objects.
HostWrite == [hx EXCEPT !.wrote = TRUE,
                        !.earlyWrite = @ \/ (hx.waitExclude
                                             /\ ~(hx.exclApplied /\ hx.obsOut))]

\* Reconcile host's ConfigMap.
reconcileHostConfigMap ==
    /\ pc = "h_cm"
    /\ \/ /\ ctxDone
          /\ HostReturns(Nil, "h_sts")
          /\ UNCHANGED <<cmHost, nFail, hx>>
       \/ /\ ~ctxDone
          /\ \E o \in reconcileConfigMap(CurHost \in cmHost, TRUE, Budget) :
              /\ cmHost' = IF o.written THEN cmHost \cup {CurHost} ELSE cmHost
              /\ nFail' = nFail + o.cost
              /\ HostReturns(o.err, "h_sts")
          /\ hx' = HostWrite
    /\ UNCHANGED <<item, nGet, qlog, handled, ret, ctxDone, chopConfig, args, res, chiObj, attrs,
                   calls, deleted, reconcileRet, hstatus, removed, tables, cmCommon, cmUsers, sts,
                   svc, watched, statusVars, announced>>

\* The counters of CHI.Status and the write of the status that follows a bump.
StatusBump(st, so) ==
    /\ status' = st
    /\ stored' = so.stored

\* The calls on the host's StatefulSet made so far, one more.
StsCall(h, name) == [h EXCEPT !.stsCalls = Append(@, name)]

reconcileStatefulSetSkipsNever(st) == FALSE

\* reconcileStatefulSet returns nil at once for the same StatefulSet.
reconcileStatefulSetSkips(st) == st = statefulSetStatusSame

\* reconcileStatefulSet up to the platform update: nothing to do for the same
\* StatefulSet, update for one that exists, create for one that does not.
reconcileStatefulSet ==
    /\ pc = "h_sts"
    /\ \/ /\ ctxDone
          /\ HostReturns(Nil, "h_svc")
          /\ UNCHANGED <<sts, statusVars, nFail, hx>>
       \/ /\ ~ctxDone
          /\ \E g1 \in GetStatefulSet(sts[CurHost], Budget) :
              IF reconcileStatefulSetSkips(
                     getStatefulSetStatus(g1.cur, g1.err, CreateStatefulSet(new)))
              THEN /\ HostReturns(Nil, "h_svc")
                   /\ nFail' = nFail + g1.cost
                   /\ UNCHANGED <<sts, statusVars, hx>>
              ELSE \E g2 \in GetStatefulSet(sts[CurHost], Budget - g1.cost) :
                  IF g2.cur.present
                  THEN \* updateStatefulSet
                       \/ \E so \in updateCHIObjectStatus(
                                      [status EXCEPT !.updated = @ + 1],
                                      Budget - g1.cost - g2.cost) :
                             /\ sts' = [sts EXCEPT ![CurHost] = CreateStatefulSet(new)]
                             /\ StatusBump([status EXCEPT !.updated = @ + 1], so)
                             /\ nFail' = nFail + g1.cost + g2.cost + so.cost
                             /\ hx' = StsCall(HostWrite, "updateStatefulSet")
                             /\ HostReturns(Nil, "h_svc")
                       \/ /\ g1.cost + g2.cost < Budget
                          /\ nFail' = nFail + g1.cost + g2.cost + 1
                          /\ hx' = StsCall(HostWrite, "updateStatefulSet")
                          /\ pc' = "sts_delete"
                          /\ UNCHANGED <<sts, statusVars, walk, stepErr>>
                  ELSE IF g2.err = "NotFound"
                  THEN /\ pc' = "sts_create"
                       /\ nFail' = nFail + g1.cost + g2.cost
                       /\ UNCHANGED <<sts, statusVars, walk, stepErr, hx>>
                  ELSE /\ HostReturns("statefulset", "h_svc")
                       /\ nFail' = nFail + g1.cost + g2.cost
                       /\ UNCHANGED <<sts, statusVars, hx>>
    /\ UNCHANGED <<item, nGet, qlog, handled, ret, ctxDone, chopConfig, args, res, chiObj, attrs,
                   calls, deleted, reconcileRet, hstatus, removed, tables, cmCommon, cmUsers,
                   cmHost, svc, watched, announced>>

\* Where updateStatefulSet goes once deleteStatefulSet and
\* reconcilePersistentVolumeClaims returned err: on to createStatefulSet.
updateStatefulSetAfterDelete(err) == "sts_create"

\* updateStatefulSet after a failed update: delete the StatefulSet, reconcile the
\* PersistentVolumeClaims; both results are dropped.
deleteStatefulSet ==
    /\ pc = "sts_delete"
    /\ \/ /\ ctxDone
          /\ pc' = updateStatefulSetAfterDelete(Nil)
          /\ UNCHANGED <<sts, nFail, hx>>
       \/ /\ ~ctxDone
          /\ sts' = [sts EXCEPT ![CurHost] = NoSts]
          /\ hx' = StsCall(StsCall(hx, "deleteStatefulSet"),
                           "reconcilePersistentVolumeClaims")
          /\ pc' = updateStatefulSetAfterDelete(Nil)
          /\ UNCHANGED nFail
       \/ /\ ~ctxDone
          /\ nFail < MaxFailures
          /\ nFail' = nFail + 1
          /\ hx' = StsCall(StsCall(hx, "deleteStatefulSet"),
                           "reconcilePersistentVolumeClaims")
          /\ pc' = updateStatefulSetAfterDelete("statefulset")
          /\ UNCHANGED sts
    /\ UNCHANGED <<item, nGet, qlog, handled, ret, ctxDone, chopConfig, args, res, chiObj, attrs,
                   walk, calls, deleted, stepErr, reconcileRet, hstatus, removed, tables,
                   cmCommon, cmUsers, cmHost, svc, watched, statusVars, announced>>

\* createStatefulSet: AddedHostsCount is bumped and the status written whatever
\* the creation returned.
createStatefulSet ==
    /\ pc = "sts_create"
    /\ \/ /\ ctxDone
          /\ HostReturns(Nil, "h_svc")
          /\ UNCHANGED <<sts, statusVars, nFail, hx>>
       \/ /\ ~ctxDone
          /\ \E e \in (IF sts[CurHost].present THEN {"statefulset"}
                       ELSE {Nil} \cup {"statefulset" : x \in {1} \cap (1..Budget)}) :
              LET cost == IF e # Nil /\ ~sts[CurHost].present THEN 1 ELSE 0
              IN \E so \in updateCHIObjectStatus([status EXCEPT !.added = @ + 1],
                                                 Budget - cost) :
                  /\ sts' = IF e = Nil
                            THEN [sts EXCEPT ![CurHost] = CreateStatefulSet(new)]
                            ELSE sts
                  /\ StatusBump([status EXCEPT !.added = @ + 1], so)
                  /\ nFail' = nFail + cost + so.cost
                  /\ HostReturns(e, "h_svc")
          /\ hx' = StsCall(HostWrite, "createStatefulSet")
    /\ UNCHANGED <<item, nGet, qlog, handled, ret, ctxDone, chopConfig, args, res, chiObj, attrs,
                   calls, deleted, reconcileRet, hstatus, removed, tables, cmCommon, cmUsers,
                   cmHost, svc, watched, announced>>

\* reconcilePersistentVolumes, then the host's Service.
reconcileHostService ==
    /\ pc = "h_svc"
    /\ \/ /\ ctxDone
          /\ HostReturns(Nil, "h_tables")
          /\ UNCHANGED <<svc, nFail, hx>>
       \/ /\ ~ctxDone
          /\ \E so \in reconcileService(ServiceHost(CurHost), Budget) :
              /\ svc' = so.svc
              /\ nFail' = nFail + so.cost
              /\ HostReturns(so.err, "h_tables")
          /\ hx' = HostWrite
    /\ UNCHANGED <<item, nGet, qlog, handled, ret, ctxDone, chopConfig, args, res, chiObj, attrs,
                   calls, deleted, reconcileRet, hstatus, removed, tables, cmCommon, cmUsers,
                   cmHost, sts, watched, statusVars, announced>>

UnsetAddSkipped(a) == a

\* host.ReconcileAttributes.UnsetAdd()
UnsetAdd(a) == [a EXCEPT !.add = FALSE]

\* The history of HostCreateTables calls of which c failed.
SchemerFailed(c) == [hx EXCEPT !.schemerErrs = @ + c]

hostCreateTablesErrorReturned(err) == err

\* What reconcileHost and the WalkAdded callback make of the error of
\* HostCreateTables: it is logged.
hostCreateTablesError(err) == Nil

\* host.ReconcileAttributes.UnsetAdd(), then HostCreateTables for a host to
\* migrate; its error is logged only.
hostCreateTables ==
    /\ pc = "h_tables"
    /\ attrs' = [attrs EXCEPT ![CurHost] = UnsetAdd(@)]
    /\ IF attrs[CurHost].migrate
       THEN /\ tables' = [tables EXCEPT ![CurHost] = @ + 1]
            /\ \E c \in {0} \cup ({1} \cap (1..Budget)) :
                /\ nFail' = nFail + c
                /\ hx' = SchemerFailed(c)
                /\ HostReturns(hostCreateTablesError(IF c = 1 THEN "HostCreateTables"
                                                              ELSE Nil), "in_cm")
       ELSE /\ HostReturns(Nil, "in_cm")
            /\ UNCHANGED <<tables, nFail, hx>>
    /\ UNCHANGED <<item, nGet, qlog, handled, ret, ctxDone, chopConfig, args, res, chiObj,
                   calls, deleted, reconcileRet, hstatus, removed, platformVars,
                   watched, statusVars, announced>>

\* includeHost: the topology with the host is applied (result dropped); without a
\* wait the host is marked Reconciled.
includeHost ==
    /\ pc = "in_cm"
    /\ \/ /\ ctxDone
          /\ UNCHANGED <<cmCommon, cmUsers, nFail, hx>>
       \/ /\ ~ctxDone
          /\ \E co \in reconcileCHIConfigMaps(new, includeHostOptions, TRUE, Budget) :
              /\ cmCommon' = co.cmCommon
              /\ cmUsers' = co.cmUsers
              /\ nFail' = nFail + co.cost
              /\ hx' = [hx EXCEPT !.inclApplied = co.applied]
    /\ IF shouldWaitIncludeHost(new, CurHost, hstatus)
       THEN /\ pc' = "in_wait"
            /\ UNCHANGED <<attrs, walk>>
       ELSE HostReconciled
    /\ UNCHANGED <<item, nGet, qlog, handled, ret, ctxDone, chopConfig, args, res, chiObj, calls, deleted,
                   stepErr, reconcileRet, hstatus, removed, tables, cmHost, sts, svc,
                   watched, statusVars, announced>>

\* waitHostInCluster, then the host is marked Reconciled.
waitHostInCluster ==
    /\ pc = "in_wait"
    /\ ctxDone \/ IsHostInCluster(CurHost)
    /\ hx' = [hx EXCEPT !.obsIn = IsHostInCluster(CurHost)]
    /\ HostReconciled
    /\ UNCHANGED <<item, nGet, qlog, handled, ret, ctxDone, chopConfig, args, res, chiObj, calls, deleted,
                   stepErr, reconcileRet, hstatus, removed, tables, platformVars, watched,
                   statusVars, announced, nFail>>

---------------------------------------------------------------------------
\* updateCHI(), from the return of reconcile() on.

RECURSIVE SeqOf(_)
SeqOf(S) == IF S = {} THEN <<>>
            ELSE LET h == CHOOSE x \in S : \A y \in S : x[1] < y[1] \/ (x[1] = y[1] /\ x[2] <= y[2])
                 IN <<h>> \o SeqOf(S \ {h})

updateCHIStopsNever(err) == FALSE

\* if err := w.reconcile(ctx, new); err != nil { ...; return nil }
updateCHIStops(err) == err # Nil

\* reconcile() returns what WalkTillError returned. On an error updateCHI
\* announces "FAILED update" and returns.
ReconcileReturn ==
    /\ pc = "walk"
    /\ walk = <<>>
    /\ reconcileRet' = stepErr
    /\ IF updateCHIStops(stepErr)
       THEN /\ announced' = Append(announced, "FAILED update")
            /\ Return(updateCHIResult(stepErr))
       ELSE /\ pc' = "postAdded"
            /\ UNCHANGED <<announced, ret, handled>>
    /\ UNCHANGED <<item, nGet, qlog, ctxDone, chopConfig, args, res, chiObj, attrs, walk, calls, deleted,
                   stepErr, hstatus, removed, tables, hx, platformVars, watched,
                   statusVars, nFail>>

\* actionPlan.WalkAdded: HostCreateTables on every added host of an update (its
\* error is logged only).
PostAdded ==
    /\ pc = "postAdded"
    /\ tables' = [h \in AllHosts |->
                     IF update /\ h \in AddedHosts(oldCHI, new)
                     THEN tables[h] + 1 ELSE tables[h]]
    /\ \E c \in {0} \cup (IF update /\ AddedHosts(oldCHI, new) # {}
                           THEN {1} \cap (1..Budget) ELSE {}) :
        /\ nFail' = nFail + c
        /\ hx' = SchemerFailed(c)
    /\ removed' = SeqOf(RemovedHosts(oldCHI, new))
    /\ pc' = "removeDeleted"
    /\ UNCHANGED <<item, nGet, qlog, handled, ret, ctxDone, chopConfig, args, res, chiObj, attrs,
                   walk, calls, deleted, stepErr, reconcileRet, hstatus, platformVars,
                   watched, statusVars, announced>>

\* actionPlan.WalkRemoved: deleteHost on a host of the Removed set. Without a
\* StatefulSet to fetch the host counts as deleted already.
RemoveDeleted ==
    /\ pc = "removeDeleted"
    /\ removed # <<>>
    /\ removed' = Tail(removed)
    /\ LET h == Head(removed)
       IN \/ /\ ctxDone \/ ~sts[h].present
             /\ UNCHANGED <<platformVars, statusVars, nFail>>
          \/ /\ ~ctxDone
             /\ sts[h].present
             /\ \E so \in updateCHIObjectStatus([status EXCEPT !.deleted = @ + 1], Budget) :
                 /\ sts' = [sts EXCEPT ![h] = NoSts]
                 /\ cmHost' = cmHost \ {h}
                 /\ svc' = svc \ {ServiceHost(h)}
                 /\ StatusBump([status EXCEPT !.deleted = @ + 1], so)
                 /\ nFail' = nFail + so.cost
             /\ UNCHANGED <<cmCommon, cmUsers>>
    /\ UNCHANGED <<pc, item, nGet, qlog, handled, ret, ctxDone, chopConfig, args, res, chiObj, attrs,
                   walk, calls, deleted, stepErr, reconcileRet, hstatus, tables, hx, watched,
                   announced>>

\* The CHI is added to monitoring unless stopped; Status.ReconcileComplete(), the
\* status write, return nil.
Complete ==
    /\ pc = "removeDeleted"
    /\ removed = <<>>
    /\ watched' = IF ~new.stop THEN TRUE ELSE watched
    /\ \E so \in updateCHIObjectStatus(ReconcileComplete(status), Budget) :
        /\ StatusBump(ReconcileComplete(status), so)
        /\ nFail' = nFail + so.cost
    /\ Return(Nil)
    /\ UNCHANGED <<item, nGet, qlog, ctxDone, chopConfig, args, res, chiObj, passVars, platformVars,
                   announced>>

---------------------------------------------------------------------------
Next ==
    \/ Get
    \/ Shutdown
    \/ Forget
    \/ Done
    \/ Cancel
    \/ ProcessOther
    \/ ProcessCHI
    \/ UpdateCHI
    \/ DeleteCHI
    \/ FinalizeCHI
    \/ DeleteHostStep
    \/ DeleteObjectStep
    \/ DeleteCHIReturn
    \/ UninstallFinalizer
    \/ reconcileCHIAuxObjectsPreliminary
    \/ reconcileClusterOrShard
    \/ reconcileHost
    \/ excludeHost
    \/ waitHostNotInCluster
    \/ reconcileHostConfigMap
    \/ reconcileStatefulSet
    \/ deleteStatefulSet
    \/ createStatefulSet
    \/ reconcileHostService
    \/ hostCreateTables
    \/ includeHost
    \/ waitHostInCluster
    \/ reconcileCHIAuxObjectsFinal
    \/ ReconcileReturn
    \/ PostAdded
    \/ RemoveDeleted
    \/ Complete

Spec == Init /\ [][Next]_vars

---------------------------------------------------------------------------
\* shouldWaitExcludeHost / shouldWaitIncludeHost on their own: every status,
\* shard size, policy and operator flag.

\* Hosts of the largest shard the decisions are applied to.
MaxShardHosts == 3

WaitCHIs ==
    { [layout |-> <<n>>, ver |-> 1, policy |-> p, stop |-> FALSE] :
          n \in 1..MaxShardHosts, p \in Policies }

InitWait ==
    /\ InitRest
    /\ pc = "decide"
    /\ item \in { CHIItem("add", NoObj, Obj(c, 1, FALSE, FALSE)) : c \in WaitCHIs }
    /\ hstatus \in StatefulSetStatuses
    /\ chopConfig \in ChopConfigs
    /\ args = NoArgs

\* Both decisions for one host of the CHI, with the status drawn in InitWait.
DecideWait ==
    /\ pc = "decide"
    /\ \E h \in HostsOf(new) :
        hx' = [NoHx EXCEPT !.h = h,
                           !.waitExclude = shouldWaitExcludeHost(new, h, hstatus),
                           !.waitInclude = shouldWaitIncludeHost(new, h, hstatus)]
    /\ pc' = "decided"
    /\ UNCHANGED <<item, nGet, qlog, handled, ret, ctxDone, chopConfig, args, res, chiObj, attrs,
                   walk, calls, deleted, stepErr, reconcileRet, hstatus, removed, tables,
                   platformVars, watched, statusVars, announced, nFail>>

NextWait == DecideWait

SpecWait == InitWait /\ [][NextWait]_vars

---------------------------------------------------------------------------
\* getStatefulSetStatus on its own: every fetch result, every pair of labels
\* and specs.

\* The largest StatefulSetVersion label and spec the classification is applied to.
MaxStsVersion == 3

\* A StatefulSet with a label (0: none) and a spec.
StsObjects ==
    { [present |-> TRUE, label |-> l, spec |-> sp] :
          l \in 0..MaxStsVersion, sp \in 1..MaxStsVersion }

\* What w.c.getStatefulSet hands back: the object, or nil with an error.
StsFetches ==
    { [cur |-> o, err |-> Nil] : o \in StsObjects }
    \cup { [cur |-> NoSts, err |-> e] : e \in {"NotFound", "error"} }

InitStatus ==
    /\ InitRest
    /\ pc = "classify"
    /\ item = NoItem
    /\ hstatus = statefulSetStatusUnknown
    /\ chopConfig = [ReconcileWaitExclude |-> FALSE, ReconcileWaitInclude |-> FALSE]
    /\ args \in { [cur |-> f.cur, err |-> f.err, desired |-> d] :
                      f \in StsFetches, d \in StsObjects }

Classify ==
    /\ pc = "classify"
    /\ res' = <<getStatefulSetStatus(args.cur, args.err, args.desired)>>
    /\ pc' = "classified"
    /\ UNCHANGED <<item, nGet, qlog, handled, ret, ctxDone, chopConfig, args, chiObj,
                   passVars, platformVars, watched, statusVars, announced, nFail>>

NextStatus == Classify

SpecStatus == InitStatus /\ [][NextStatus]_vars

---------------------------------------------------------------------------
\* updateService on its own: what it submits to the platform for a current and
\* a new Service.

\* Port numbers 1..MaxPorts, and at most that many ports in a Service.
MaxPorts == 2

ServiceTypes == {"ClusterIP", "NodePort", "LoadBalancer"}

\* Spec.Ports with distinct port numbers; origin stands for the other fields of
\* a port entry (name, protocol, targetPort).
PortLists(nodePorts, origin) ==
    { ps \in UNION { [1..n -> [port : 1..MaxPorts, nodePort : nodePorts, origin : {origin}]] :
                         n \in 0..MaxPorts } :
          \A i, j \in 1..Len(ps) : ps[i].port = ps[j].port => i = j }

\* The Services the platform holds, with the assigned clusterIP and, for the
\* types NodePort and LoadBalancer, the assigned nodePorts.
CurServices ==
    UNION { [type : {t}, rv : 1..2, clusterIP : {1},
             ports : PortLists(IF t = "ClusterIP" THEN {0} ELSE 1..2, "cur")] :
                t \in ServiceTypes }

\* The Services the Creator renders: no resourceVersion, a nodePort that is not
\* set (0) or, for the types NodePort and LoadBalancer, asked for.
NewServices ==
    UNION { [type : {t}, rv : {0}, clusterIP : {0, 2},
             ports : PortLists(IF t = "ClusterIP" THEN {0} ELSE {0, 3}, "new")] :
                t \in ServiceTypes }

\* The index of the first port of ports with port number p, 0 without one.
SamePort(ports, p) ==
    IF \E j \in 1..Len(ports) : ports[j].port = p
    THEN CHOOSE j \in 1..Len(ports) :
             ports[j].port = p /\ \A k \in 1..(j - 1) : ports[k].port # p
    ELSE 0

updateServiceReusePortsAlways(cur, nw) ==
    [type |-> nw.type, rv |-> cur.rv, clusterIP |-> cur.clusterIP,
     ports |-> [i \in 1..Len(nw.ports) |->
                   IF SamePort(cur.ports, nw.ports[i].port) # 0
                   THEN cur.ports[SamePort(cur.ports, nw.ports[i].port)]
                   ELSE nw.ports[i]]]

\* updateService(cur, new): the Service given to Services().Update.
updateService(cur, nw) ==
    [type |-> nw.type, rv |-> cur.rv, clusterIP |-> cur.clusterIP,
     ports |-> IF \/ cur.type = "NodePort" /\ nw.type = "NodePort"
                  \/ cur.type = "LoadBalancer" /\ nw.type = "LoadBalancer"
               THEN [i \in 1..Len(nw.ports) |->
                        IF SamePort(cur.ports, nw.ports[i].port) # 0
                        THEN cur.ports[SamePort(cur.ports, nw.ports[i].port)]
                        ELSE nw.ports[i]]
               ELSE nw.ports]

InitService ==
    /\ InitRest
    /\ pc = "updateService"
    /\ item = NoItem
    /\ hstatus = statefulSetStatusUnknown
    /\ chopConfig = [ReconcileWaitExclude |-> FALSE, ReconcileWaitInclude |-> FALSE]
    /\ args \in [cur : CurServices, new : NewServices]

UpdateService ==
    /\ pc = "updateService"
    /\ res' = <<updateService(args.cur, args.new)>>
    /\ pc' = "updated"
    /\ UNCHANGED <<item, nGet, qlog, handled, ret, ctxDone, chopConfig, args, chiObj,
                   passVars, platformVars, watched, statusVars, announced, nFail>>

NextService == UpdateService

SpecService == InitService /\ [][NextService]_vars

---------------------------------------------------------------------------
\* reconcilePersistentVolumeClaims on its own, for one volume mount of a host
\* that refers to a VolumeClaimTemplate.

\* The largest quantity of a resource request.
MaxQuantity == 2

ResourceNames == {"storage", "cpu"}

\* A core.ResourceList: the quantity of each name, 0 for a name it does not list.
ResourceLists == [ResourceNames -> 0..MaxQuantity]

\* What PersistentVolumeClaims().Get returns: the PVC, not-found, another error.
PVCFetches ==
    { [err |-> Nil, requests |-> r] : r \in ResourceLists }
    \cup { [err |-> "NotFound", requests |-> [n \in ResourceNames |-> 0]] }
    \cup { [err |-> "error", requests |-> r] : r \in ResourceLists }

\* The PVC in the worker's hands (pvc), the one the platform stores, the Update
\* calls made and those that failed.
PVCOutcome(pvc, st, u, f) == [pvc |-> pvc, stored |-> st, updates |-> u, failed |-> f]

reconcileResourceKeepCurrent(o, desired, n) == {o}

\* reconcileResource: a name both lists carry with unequal quantities gets the
\* desired quantity and the PVC is given to Update; an Update error is logged.
reconcileResource(o, desired, n) ==
    IF o.pvc[n] = 0 \/ desired[n] = 0 \/ o.pvc[n] = desired[n]
    THEN {o}
    ELSE LET m == [o.pvc EXCEPT ![n] = desired[n]]
         IN { PVCOutcome(m, m, o.updates + 1, o.failed),
              PVCOutcome(m, o.stored, o.updates + 1, o.failed + 1) }

\* intersect.Simple(pvcResourceNames, desiredResourceNames)
intersectSimple(pvcList, desired) ==
    {n \in ResourceNames : pvcList[n] # 0 /\ desired[n] # 0}

\* reconcileResourcesList: reconcileResource on every name of the intersection,
\* in the order the map iteration gives.
RECURSIVE reconcileResourcesList(_, _, _)
reconcileResourcesList(o, desired, names) ==
    IF names = {} THEN {o}
    ELSE UNION { UNION { reconcileResourcesList(o2, desired, names \ {n}) :
                             o2 \in reconcileResource(o, desired, n) } :
                     n \in names }

\* reconcilePersistentVolumeClaims for the volume mount: a PVC that cannot be
\* fetched is skipped.
reconcilePersistentVolumeClaims(fetch, desired) ==
    IF fetch.err # Nil
    THEN { PVCOutcome(fetch.requests, fetch.requests, 0, 0) }
    ELSE reconcileResourcesList(PVCOutcome(fetch.requests, fetch.requests, 0, 0), desired,
                                intersectSimple(fetch.requests, desired))

InitPVC ==
    /\ InitRest
    /\ pc = "reconcilePVC"
    /\ item = NoItem
    /\ hstatus = statefulSetStatusUnknown
    /\ chopConfig = [ReconcileWaitExclude |-> FALSE, ReconcileWaitInclude |-> FALSE]
    /\ args \in [fetch : PVCFetches, desired : ResourceLists]

ReconcilePVC ==
    /\ pc = "reconcilePVC"
    /\ \E o \in reconcilePersistentVolumeClaims(args.fetch, args.desired) : res' = <<o>>
    /\ pc' = "reconciledPVC"
    /\ UNCHANGED <<item, nGet, qlog, handled, ret, ctxDone, chopConfig, args, chiObj,
                   passVars, platformVars, watched, statusVars, announced, nFail>>

NextPVC == ReconcilePVC

SpecPVC == InitPVC /\ [][NextPVC]_vars

---------------------------------------------------------------------------
\* reconcileService on its own: the calls it issues and what it returns, given
\* what each call gives back.

ServiceNames == {ServiceCHI, ServiceCluster, ServiceShard(1), ServiceHost(<<1, 1>>)}

\* What w.c.getService returns: the Service, not-found, another error.
ServiceFetches == {Nil, "NotFound", "error"}

\* The outcomes of the calls reconcileService may issue.
ServiceOutcomes ==
    [name : ServiceNames, ctxDone : BOOLEAN, get : ServiceFetches,
     update : {Nil, "update"}, delete : {Nil, "delete"}, create : {Nil, "create"}]

reconcileServiceCallsAlwaysRecreate(o) ==
    [calls |-> <<"deleteServiceIfExists", "createService">>, err |-> o.create]

\* reconcileService(ctx, chi, service)
reconcileServiceCalls(o) ==
    IF o.ctxDone THEN [calls |-> <<>>, err |-> Nil]
    ELSE LET upd == o.get = Nil
             err1 == IF upd THEN o.update ELSE o.get
         IN IF err1 # Nil
            THEN [calls |-> (IF upd THEN <<"updateService">> ELSE <<>>)
                            \o <<"deleteServiceIfExists", "createService">>,
                  err |-> o.create]
            ELSE [calls |-> <<"updateService">>, err |-> Nil]

InitReconcileService ==
    /\ InitRest
    /\ pc = "reconcileService"
    /\ item = NoItem
    /\ hstatus = statefulSetStatusUnknown
    /\ chopConfig = [ReconcileWaitExclude |-> FALSE, ReconcileWaitInclude |-> FALSE]
    /\ args \in ServiceOutcomes

ReconcileService ==
    /\ pc = "reconcileService"
    /\ res' = <<reconcileServiceCalls(args)>>
    /\ pc' = "reconciledService"
    /\ UNCHANGED <<item, nGet, qlog, handled, ret, ctxDone, chopConfig, args, chiObj,
                   passVars, platformVars, watched, statusVars, announced, nFail>>

NextReconcileService == ReconcileService

SpecReconcileService == InitReconcileService /\ [][NextReconcileService]_vars

---------------------------------------------------------------------------
\* updateStatefulSet on its own: the calls it issues and what it returns, given
\* what each call gives back.

\* The outcomes of the calls updateStatefulSet may issue, for a current
\* StatefulSet cur.
StatefulSetOutcomes ==
    [cur : StsObjects, ctxDone : BOOLEAN, update : {Nil, "update"},
     delete : {Nil, "delete"}, create : {Nil, "create"}]

updateStatefulSetCallsStopOnError(o) ==
    IF o.delete # Nil
    THEN [calls |-> <<"updateStatefulSet", "deleteStatefulSet">>, err |-> o.delete]
    ELSE [calls |-> <<"updateStatefulSet", "deleteStatefulSet",
                      "reconcilePersistentVolumeClaims", "createStatefulSet">>,
          err |-> o.create]

\* updateStatefulSet(ctx, curStatefulSet, newStatefulSet, host)
updateStatefulSetCalls(o) ==
    IF o.ctxDone THEN [calls |-> <<>>, err |-> Nil]
    ELSE IF o.update = Nil THEN [calls |-> <<"updateStatefulSet">>, err |-> Nil]
    ELSE [calls |-> <<"updateStatefulSet", "deleteStatefulSet",
                      "reconcilePersistentVolumeClaims", "createStatefulSet">>,
          err |-> o.create]

InitUpdateStatefulSet ==
    /\ InitRest
    /\ pc = "updateStatefulSet"
    /\ item = NoItem
    /\ hstatus = statefulSetStatusUnknown
    /\ chopConfig = [ReconcileWaitExclude |-> FALSE, ReconcileWaitInclude |-> FALSE]
    /\ args \in StatefulSetOutcomes

UpdateStatefulSet ==
    /\ pc = "updateStatefulSet"
    /\ res' = <<updateStatefulSetCalls(args)>>
    /\ pc' = "updatedStatefulSet"
    /\ UNCHANGED <<item, nGet, qlog, handled, ret, ctxDone, chopConfig, args, chiObj,
                   passVars, platformVars, watched, statusVars, announced, nFail>>

NextUpdateStatefulSet == UpdateStatefulSet

SpecUpdateStatefulSet == InitUpdateStatefulSet /\ [][NextUpdateStatefulSet]_vars

---------------------------------------------------------------------------
\* reconcileConfigMap and reconcileCHIAuxObjectsPreliminary on their own: the
\* calls they issue and what they return, given what each call gives back.

\* The outcomes of the calls reconcileConfigMap may issue on one ConfigMap:
\* getConfigMap gives the ConfigMap, not-found or another error.
ConfigMapOutcomes ==
    [get : {Nil, "NotFound", "error"}, update : {Nil, "NotFound", "update"},
     create : {Nil, "create"}]

\* The inputs: the context, the update flag, chi.IsStopped(), what
\* reconcileService returns for the CHI Service, and the outcomes on the two
\* CHI ConfigMaps.
AuxOutcomes ==
    [ctxDone : BOOLEAN, upd : BOOLEAN, stopped : BOOLEAN, service : {Nil, "service"},
     common : ConfigMapOutcomes, users : ConfigMapOutcomes]

ConfigMapCall(f, cm) == [f |-> f, cm |-> cm]

reconcileConfigMapCallsAlwaysUpdate(ctx, cm, o, upd) ==
    IF ctx THEN [calls |-> <<>>, err |-> Nil]
    ELSE LET get == <<ConfigMapCall("getConfigMap", cm)>>
             cur == o.get = Nil
             err1 == IF cur THEN o.update ELSE o.get
             calls1 == get \o (IF cur THEN <<ConfigMapCall("updateConfigMap", cm)>>
                                      ELSE <<>>)
         IN IF err1 = "NotFound"
            THEN [calls |-> calls1 \o <<ConfigMapCall("createConfigMap", cm)>>,
                  err |-> o.create]
            ELSE [calls |-> calls1, err |-> err1]

\* reconcileConfigMap(ctx, chi, configMap, update)
reconcileConfigMapCalls(ctx, cm, o, upd) ==
    IF ctx THEN [calls |-> <<>>, err |-> Nil]
    ELSE LET get == <<ConfigMapCall("getConfigMap", cm)>>
             cur == o.get = Nil
             err1 == IF cur THEN o.update ELSE o.get
             calls1 == get \o (IF cur THEN <<ConfigMapCall("updateConfigMap", cm)>>
                                      ELSE <<>>)
         IN IF cur /\ ~upd THEN [calls |-> get, err |-> Nil]
            ELSE IF err1 = "NotFound"
            THEN [calls |-> calls1 \o <<ConfigMapCall("createConfigMap", cm)>>,
                  err |-> o.create]
            ELSE [calls |-> calls1, err |-> err1]

\* reconcileCHIConfigMaps(ctx, chi, options, update): the common ConfigMap, then
\* the users one unless the first returned an error.
reconcileCHIConfigMapsCalls(a, upd) ==
    IF a.ctxDone THEN [calls |-> <<>>, err |-> Nil]
    ELSE LET c1 == reconcileConfigMapCalls(a.ctxDone, "common", a.common, upd)
             c2 == reconcileConfigMapCalls(a.ctxDone, "users", a.users, upd)
         IN IF c1.err # Nil THEN c1
            ELSE [calls |-> c1.calls \o c2.calls, err |-> c2.err]

\* reconcileCHIAuxObjectsPreliminary(ctx, chi): the CHI Service is deleted for a
\* stopped CHI (result dropped) and reconciled otherwise, then the CHI
\* ConfigMaps without update.
reconcileCHIAuxObjectsPreliminaryCalls(a) ==
    IF a.ctxDone THEN [calls |-> <<>>, err |-> Nil]
    ELSE IF ~a.stopped /\ a.service # Nil
    THEN [calls |-> <<ConfigMapCall("reconcileService", "chi")>>, err |-> a.service]
    ELSE LET cms == reconcileCHIConfigMapsCalls(a, FALSE)
         IN [calls |-> <<ConfigMapCall(IF a.stopped THEN "deleteServiceCHI"
                                                    ELSE "reconcileService", "chi")>>
                       \o cms.calls,
             err |-> cms.err]

InitReconcileConfigMap ==
    /\ InitRest
    /\ pc \in {"reconcileConfigMap", "reconcileCHIAuxObjectsPreliminary"}
    /\ item = NoItem
    /\ hstatus = statefulSetStatusUnknown
    /\ chopConfig = [ReconcileWaitExclude |-> FALSE, ReconcileWaitInclude |-> FALSE]
    /\ args \in AuxOutcomes

ReconcileConfigMap ==
    /\ pc = "reconcileConfigMap"
    /\ res' = <<reconcileConfigMapCalls(args.ctxDone, "common", args.common, args.upd)>>
    /\ pc' = "reconciledConfigMap"
    /\ UNCHANGED <<item, nGet, qlog, handled, ret, ctxDone, chopConfig, args, chiObj,
                   passVars, platformVars, watched, statusVars, announced, nFail>>

ReconcileAuxPreliminary ==
    /\ pc = "reconcileCHIAuxObjectsPreliminary"
    /\ res' = <<reconcileCHIAuxObjectsPreliminaryCalls(args)>>
    /\ pc' = "reconciledAuxPreliminary"
    /\ UNCHANGED <<item, nGet, qlog, handled, ret, ctxDone, chopConfig, args, chiObj,
                   passVars, platformVars, watched, statusVars, announced, nFail>>

NextReconcileConfigMap ==
    \/ ReconcileConfigMap
    \/ ReconcileAuxPreliminary

SpecReconcileConfigMap == InitReconcileConfigMap /\ [][NextReconcileConfigMap]_vars

---------------------------------------------------------------------------
\* Properties.

\* C1: for every item run() dequeued, Forget and then Done are called, in that
\* order and once each, before the next Get (or the end of run()), whatever
\* processItem did with the item.
QueueDiscipline ==
    /\ (pc \in {"get", "stopped"} /\ nGet > 0) => qlog = <<"Get", "Forget", "Done">>
    /\ pc = "done" => qlog = <<"Get", "Forget">>
    /\ (pc \notin {"get", "stopped", "done"}) => qlog = <<"Get">>

\* An item whose processItem returned an error has been released.
QueueDisciplineAfterError ==
    /\ pc = "get"
    /\ ret # Nil
    /\ handled # <<>>
    /\ qlog = <<"Get", "Forget", "Done">>

\* C2: the stored topology ConfigMap never leaves out, by ExcludeHost, two hosts
\* of one shard, in a first pass or in one that follows an aborted pass.
ExclusionSafety ==
    \A h1, h2 \in AllHosts :
        (h1 \in cmCommon.excl /\ h2 \in cmCommon.excl /\ h1[1] = h2[1]) => h1 = h2

\* excludeHost is about to exclude the first host of a shard while the stored
\* topology still leaves out the second one, excluded by an earlier pass that an
\* error ended before includeHost.
ExclusionAfterAbortedPass ==
    /\ pc = "ex_cm"
    /\ ~ctxDone
    /\ CurHost = <<1, 1>>
    /\ cmCommon.excl = {<<1, 2>>}

\* C3: when reconcile() returned nil, no host marked Reconciled is left out of
\* the stored topology ConfigMap by ExcludeHost.
ReconciledNotExcluded ==
    (pc = "postAdded" /\ reconcileRet = Nil) =>
        \A h \in HostsOf(new) : attrs[h].reconciled => h \notin cmCommon.excl

\* C4: while a StatefulSet of the CHI exists, the stored common ConfigMap lists
\* no host whose Add attribute is still set.
TopologyOrdering ==
    (\E h \in AllHosts : sts[h].present) =>
        \A h \in AllHosts : (cmCommon.present /\ h \in cmCommon.listed) => ~attrs[h].add

\* C5: a host that is to be excluded has its objects written only after the
\* topology without it was applied and the host was seen out of the cluster, and
\* is marked Reconciled only after the topology with it was applied and, when
\* the include is to be waited for, the host was seen in the cluster.
ExcludeIncludeProtocol ==
    /\ ~hx.earlyWrite
    /\ \A h \in AllHosts :
          (hx.h = h /\ hx.waitExclude /\ attrs[h].reconciled) =>
              (hx.inclApplied /\ (hx.waitInclude => hx.obsIn))

\* C6: shouldWaitExcludeHost is true exactly when the status is neither New nor
\* Same, the shard has more than one host, the policy is not NoWait, and the
\* policy is Wait or ReconcileWaitExclude is set; shouldWaitIncludeHost is the
\* same with ReconcileWaitInclude.
WaitDecision ==
    pc = "decided" =>
        /\ hx.waitExclude =
              ( /\ hstatus \notin {statefulSetStatusNew, statefulSetStatusSame}
                /\ HostsCount(new, hx.h) > 1
                /\ new.policy # "NoWait"
                /\ (new.policy = "Wait" \/ chopConfig.ReconcileWaitExclude) )
        /\ hx.waitInclude =
              ( /\ hstatus \notin {statefulSetStatusNew, statefulSetStatusSame}
                /\ HostsCount(new, hx.h) > 1
                /\ new.policy # "NoWait"
                /\ (new.policy = "Wait" \/ chopConfig.ReconcileWaitInclude) )
        /\ (HostsCount(new, hx.h) = 1 => ~hx.waitExclude /\ ~hx.waitInclude)

\* The two decisions differ: the exclusion is waited for by the operator flag,
\* the inclusion is not.
WaitDecisionByFlag ==
    /\ pc = "decided"
    /\ new.policy = ""
    /\ hstatus = statefulSetStatusModified
    /\ hx.waitExclude
    /\ ~hx.waitInclude

\* C7: the steps of one reconcile() run aux-preliminary first, the cluster
\* before its shards, a shard before its hosts, each level in declaration order,
\* aux-final last and after every host; a host step runs with the common
\* ConfigMaps in place.
StepOrder ==
    /\ calls # <<>> => calls[1].f = "reconcileCHIAuxObjectsPreliminary"
    /\ \A i, j \in 1..Len(calls) :
          i < j =>
            /\ calls[j].f # "reconcileCHIAuxObjectsPreliminary"
            /\ calls[i].f # "reconcileCHIAuxObjectsFinal"
            /\ calls[j].f = "reconcileCluster" => calls[i].f # "reconcileShard"
            /\ calls[j].f \in {"reconcileCluster", "reconcileShard"} =>
                   ~(calls[i].f = "reconcileHost" /\ calls[i].s >= calls[j].s)
            /\ calls[i].f = calls[j].f =>
                   \/ calls[i].s < calls[j].s
                   \/ calls[i].s = calls[j].s /\ calls[i].r < calls[j].r
    /\ \A j \in 1..Len(calls) :
          /\ calls[j].f = "reconcileShard" =>
                 \E i \in 1..(j - 1) : calls[i].f = "reconcileCluster"
          /\ calls[j].f = "reconcileHost" =>
                 \E i \in 1..(j - 1) : calls[i] = Step("reconcileShard", calls[j].s, 0)
          /\ calls[j].f = "reconcileCHIAuxObjectsFinal" =>
                 \A h \in HostsOf(new) :
                     \E i \in 1..(j - 1) : calls[i] = Step("reconcileHost", h[1], h[2])
    /\ pc \in HostPcs => cmCommon.present /\ cmUsers

\* A pass over the two shards reached aux-final with every host reconciled.
StepOrderFullPass ==
    /\ calls # <<>>
    /\ calls[Len(calls)].f = "reconcileCHIAuxObjectsFinal"
    /\ new.layout = LayoutFull
    /\ \A h \in HostsOf(new) : attrs[h].reconciled

\* C8: once a step returned an error no other step is invoked: the walk is
\* over, no host that follows is entered or marked Reconciled, aux-final is not
\* run, and reconcile() returns that error.
WalkStopsAtFirstError ==
    stepErr # Nil =>
        /\ walk = <<>>
        /\ pc \in {"walk", "forget", "done", "get", "stopped"}
        /\ pc # "walk" => reconcileRet = stepErr
        /\ \A h \in HostsOf(new) :
              (\A i \in 1..Len(calls) : calls[i] # Step("reconcileHost", h[1], h[2])) =>
                  ~attrs[h].reconciled /\ hx.h # h
        /\ \A i \in 1..Len(calls) :
              calls[i].f = "reconcileCHIAuxObjectsFinal" => stepErr = "configmap"

\* The first host of the two-host shard failed: reconcile() returned its error,
\* the second host was not entered and aux-final was not run.
WalkStoppedAtHost ==
    /\ pc = "forget"
    /\ reconcileRet # Nil
    /\ new.layout = LayoutFull
    /\ calls[Len(calls)] = Step("reconcileHost", 1, 1)

\* C9: an error of a reconcile step reaches run(): processItem returns it and
\* run() hands it to the runtime error handler; the worker makes no queue call
\* but Get, Forget and Done.
ErrorSurfaced ==
    /\ (pc \in {"forget", "done"} /\ reconcileRet # Nil) =>
           (ret = reconcileRet /\ handled = <<reconcileRet>>)
    /\ \A i \in 1..Len(qlog) : qlog[i] \in {"Get", "Forget", "Done"}

\* C10: with the context done, updateCHI changes no field of CHI.Status and
\* issues no status write.
CancelledKeepsStatus ==
    [][(ctxDone /\ pc \in ({"updateCHI", "walk", "postAdded", "removeDeleted"} \cup HostPcs))
          => (status' = status /\ stored' = stored)]_vars

\* C11: once the context is done in the middle of a reconcile, the rest of the
\* item's processing issues no mutating call: no object is created, updated or
\* deleted, HostCreateTables is not called, and the watch is not updated.
CancelledNoCalls ==
    [][(ctxDone /\ pc \in ({"walk", "postAdded", "removeDeleted"} \cup HostPcs))
          => (/\ platformVars' = platformVars
              /\ tables' = tables
              /\ watched' = watched
              /\ chiObj' = chiObj)]_vars

\* C19: a create pass (no old CHI) never calls HostCreateTables; in an update
\* pass a host of the Added set gets no HostCreateTables call in its per-host
\* step, only in the post-process WalkAdded step, so no host gets more than one
\* call in a pass and, once the post-process is over, every host got one.
SchemaCreationCalls ==
    /\ ~update => \A h \in AllHosts : tables[h] = 0
    /\ \A h \in AllHosts : tables[h] <= 1
    /\ (update /\ pc \in ({"walk"} \cup HostPcs)) =>
           \A h \in AddedHosts(oldCHI, new) : tables[h] = 0
    /\ (update /\ ~ctxDone /\ pc = "removeDeleted") =>
           \A h \in HostsOf(new) : tables[h] = 1

\* C12: getStatefulSetStatus gives Same for equal StatefulSetVersion labels on
\* both objects, Modified for an object that exists, is not Same and whose spec
\* differs from the desired one, New for a fetch that failed with not-found,
\* Unknown otherwise.
StatusClassification ==
    pc = "classified" =>
        res = << IF /\ args.cur.present
                    /\ args.cur.label # 0
                    /\ args.desired.label # 0
                    /\ args.cur.label = args.desired.label
                 THEN statefulSetStatusSame
                 ELSE IF args.cur.present /\ args.cur.spec # args.desired.spec
                 THEN statefulSetStatusModified
                 ELSE IF args.err = "NotFound"
                 THEN statefulSetStatusNew
                 ELSE statefulSetStatusUnknown >>

\* C13 as stated: the submitted Service has the current clusterIP and
\* resourceVersion, and every port of new with the port number of a current
\* port has that port's nodePort.
ServiceImmutablesAnyType ==
    pc = "updated" =>
        /\ res[1].clusterIP = args.cur.clusterIP
        /\ res[1].rv = args.cur.rv
        /\ \A i \in 1..Len(args.new.ports), j \in 1..Len(args.cur.ports) :
              args.new.ports[i].port = args.cur.ports[j].port =>
                  res[1].ports[i].nodePort = args.cur.ports[j].nodePort

\* C13: the submitted Service has the current clusterIP and resourceVersion;
\* when both Services are of type NodePort or both of type LoadBalancer, every
\* port of new with the port number of a current port is that current port entry
\* (so its nodePort is the current one); every other port is as new has it.
ServiceImmutables ==
    pc = "updated" =>
        /\ res[1].clusterIP = args.cur.clusterIP
        /\ res[1].rv = args.cur.rv
        /\ res[1].type = args.new.type
        /\ Len(res[1].ports) = Len(args.new.ports)
        /\ \A i \in 1..Len(args.new.ports) :
              IF /\ args.cur.type = args.new.type
                 /\ args.new.type \in {"NodePort", "LoadBalancer"}
                 /\ \E j \in 1..Len(args.cur.ports) :
                        args.cur.ports[j].port = args.new.ports[i].port
              THEN \E j \in 1..Len(args.cur.ports) :
                       /\ args.cur.ports[j].port = args.new.ports[i].port
                       /\ res[1].ports[i] = args.cur.ports[j]
              ELSE res[1].ports[i] = args.new.ports[i]

\* A NodePort Service updated by a NodePort Service: one port reuses the current
\* entry, the other one is new.
ServicePortReused ==
    /\ pc = "updated"
    /\ args.cur.type = "NodePort"
    /\ args.new.type = "NodePort"
    /\ Len(args.new.ports) = 2
    /\ res[1].ports[1].origin = "cur"
    /\ res[1].ports[1].nodePort # args.new.ports[1].nodePort
    /\ res[1].ports[2].origin = "new"

\* C14: after reconcilePersistentVolumeClaims the PVC requests the template's
\* quantity for exactly the names both lists carry; a name on one side only is
\* neither added nor removed nor changed; the stored PVC is the one in hand
\* unless an Update failed, and changes in listed names only; a PVC that cannot
\* be fetched is skipped with no Update.
PVCUpdateMonotone ==
    pc = "reconciledPVC" =>
        LET o == res[1]
            both(n) == args.fetch.requests[n] # 0 /\ args.desired[n] # 0
        IN IF args.fetch.err # Nil
           THEN o.updates = 0 /\ o.stored = args.fetch.requests
           ELSE /\ \A n \in ResourceNames :
                      /\ both(n) <=> (o.pvc[n] # 0 /\ o.pvc[n] = args.desired[n])
                      /\ ~both(n) => /\ o.pvc[n] = args.fetch.requests[n]
                                     /\ o.stored[n] = args.fetch.requests[n]
                      /\ o.stored[n] \in {args.fetch.requests[n], o.pvc[n]}
                /\ o.failed = 0 => o.stored = o.pvc
                /\ o.updates =
                      Cardinality({n \in ResourceNames :
                                      both(n) /\ args.fetch.requests[n] # args.desired[n]})

\* One name of both lists was raised to the template's quantity while a name
\* the template alone lists stayed out of the PVC.
PVCOneNameUpdated ==
    /\ pc = "reconciledPVC"
    /\ args.fetch.err = Nil
    /\ args.fetch.requests["cpu"] = 0
    /\ args.desired["cpu"] # 0
    /\ args.fetch.requests["storage"] = 1
    /\ res[1].stored["storage"] = 2
    /\ res[1].stored["cpu"] = 0

\* C15: once updateCHI has worked on a live CHI (one without deletion timestamp),
\* that CHI lists the finalizer, whether or not it listed it before.
FinalizerEnsured ==
    [][(pc = "updateCHI" /\ pc' # "updateCHI" /\ chiObj.present /\ ~item.new.deleting)
          => chiObj'.fin]_vars

\* C16: while the worker processes an add or update item whose CHI has a
\* deletion timestamp, updateCHI goes to finalizeCHI only (or returns at once on
\* an unchanged resource version): the finalizer is never installed, no host is
\* stamped by an action plan, no reconcile step is invoked, and no ConfigMap,
\* Service or StatefulSet is created or changed (they can only be deleted).
DeletingOnlyFinalized ==
    [][(item.type = "ReconcileCHI" /\ item.cmd \in {"add", "update"} /\ item.new.deleting
            /\ pc \notin {"get", "stopped"})
          => /\ pc = "updateCHI" /\ pc' # pc => pc' \in {"finalizeCHI", "forget"}
             /\ pc' \notin ({"walk", "postAdded", "removeDeleted", "complete"} \cup HostPcs)
             /\ chiObj'.fin => chiObj.fin
             /\ attrs' = attrs
             /\ calls' = <<>>
             /\ \A h \in AllHosts : sts'[h] \in {sts[h], NoSts}
             /\ cmHost' \subseteq cmHost
             /\ svc' \subseteq svc
             /\ cmCommon' \in {cmCommon, NoCM}
             /\ cmUsers' => cmUsers]_vars

\* updateCHI handed a CHI with a deletion timestamp, whose objects exist, to
\* finalizeCHI.
DeletingSentToFinalize ==
    /\ pc = "finalizeCHI"
    /\ item.cmd = "update"
    /\ item.new.deleting
    /\ item.new.fin
    /\ \E h \in AllHosts : sts[h].present

\* C17: when finalizeCHI calls uninstallFinalizer, deleteCHI has made every call
\* of its cascade: the finalizer is not removed after a deleteCHI that stopped
\* early.
FinalizerRemovedLast ==
    pc = "uninstallFinalizer" =>
        LET visited == {deleted[i] : i \in 1..Len(deleted)}
        IN /\ \A h \in HostsOf(new) : Step("deleteHost", h[1], h[2]) \in visited
           /\ \A s \in ShardsOf(new) : Step("deleteServiceShard", s, 0) \in visited
           /\ Step("deleteServiceCluster", 0, 0) \in visited
           /\ Step("deleteConfigMapsCHI", 0, 0) \in visited
           /\ Step("deleteServiceCHI", 0, 0) \in visited

\* C18: when deleteCHI reaches its end on a live context, it has made every
\* call of the cascade, for every host, shard Service, the cluster Service, the
\* common ConfigMaps and the CHI Service, whichever deletes failed.
DeleteCascadeComplete ==
    (pc = "deleteWalk" /\ walk = <<>> /\ ~ctxDone) =>
        LET chi == IF item.cmd = "delete" THEN item.old.spec ELSE new
            at(f, s, r) == {i \in 1..Len(deleted) : deleted[i] = Step(f, s, r)}
            once(f, s, r) == Cardinality(at(f, s, r)) = 1
            before(f, s, r, g, t, q) == \A i \in at(f, s, r), j \in at(g, t, q) : i < j
        IN /\ \A h \in HostsOf(chi) :
                 /\ once("deleteHost", h[1], h[2])
                 /\ before("deleteHost", h[1], h[2], "deleteServiceShard", h[1], 0)
           /\ \A s \in ShardsOf(chi) :
                 /\ once("deleteServiceShard", s, 0)
                 /\ before("deleteServiceShard", s, 0, "deleteServiceCluster", 0, 0)
           /\ once("deleteServiceCluster", 0, 0)
           /\ once("deleteConfigMapsCHI", 0, 0)
           /\ once("deleteServiceCHI", 0, 0)
           /\ before("deleteServiceCluster", 0, 0, "deleteConfigMapsCHI", 0, 0)
           /\ before("deleteConfigMapsCHI", 0, 0, "deleteServiceCHI", 0, 0)

\* The delete of the first host of a two-shard CHI failed (its StatefulSet is
\* still there) and the cascade went on to its last call.
DeleteCascadeAfterFailure ==
    /\ pc = "deleteWalk"
    /\ walk = <<>>
    /\ ~ctxDone
    /\ new.layout = LayoutFull
    /\ sts[<<1, 1>>].present
    /\ ~sts[<<2, 1>>].present
    /\ Len(deleted) > 0
    /\ deleted[1] = Step("deleteHost", 1, 1)
    /\ deleted[Len(deleted)] = Step("deleteServiceCHI", 0, 0)

\* C20: a pass over a CHI whose objects the platform holds exactly as a
\* successful reconcile of that CHI left them (every host's StatefulSet,
\* ConfigMap and Service, the shard, cluster and CHI Services, the common
\* ConfigMaps listing every host, the finalizer) changes none of them.
ReconcileIdempotent ==
    [][(/\ item.type = "ReconcileCHI"
        /\ item.cmd \in {"add", "update"}
        /\ pc \notin {"get", "stopped"}
        /\ ~item.new.deleting
        /\ item.new.fin
        /\ chiObj.fin
        /\ \A h \in AllHosts :
              IF h \in HostsOf(new)
              THEN sts[h] = CreateStatefulSet(new) /\ h \in cmHost /\ ServiceHost(h) \in svc
              ELSE ~sts[h].present /\ h \notin cmHost /\ ServiceHost(h) \notin svc
        /\ \A s \in ShardsOf(new) : ServiceShard(s) \in svc
        /\ ServiceCluster \in svc
        /\ ServiceCHI \in svc
        /\ cmCommon = [present |-> TRUE, listed |-> HostsOf(new), excl |-> {}]
        /\ cmUsers)
          => (platformVars' = platformVars /\ chiObj'.fin)]_vars

\* C21: in the pass that creates a fresh CHI (the first item, an add, on an
\* empty platform, no call failing, the context live) the objects appear in
\* this order: the CHI Service, the two common ConfigMaps, the cluster
\* Service, the shard Service, then per host
\* its ConfigMap, its StatefulSet and its Service; exclude is skipped, and the
\* common ConfigMaps are not written during the per-host steps.
FreshCreateCallOrder ==
    [][(nGet = 1 /\ item.type = "ReconcileCHI" /\ item.cmd = "add"
            /\ nFail = 0 /\ ~ctxDone /\ pc \in ({"walk"} \cup HostPcs))
          => /\ cmCommon.present => ServiceCHI \in svc
             /\ cmUsers => cmCommon.present
             /\ ServiceCluster \in svc => cmUsers
             /\ \A s \in ShardsOf(new) : ServiceShard(s) \in svc => ServiceCluster \in svc
             /\ \A h \in HostsOf(new) :
                   /\ h \in cmHost => ServiceShard(h[1]) \in svc
                   /\ sts[h].present => h \in cmHost
                   /\ ServiceHost(h) \in svc => sts[h].present
             /\ pc \notin {"ex_cm", "ex_wait", "in_wait"}
             /\ pc \in HostPcs => (cmCommon' = cmCommon /\ cmUsers' = cmUsers)]_vars

\* C22: reconcileService on a live context: when the Service was fetched and
\* updateService returned nil, update is the only call and nil is returned;
\* when the Service could not be fetched or updateService returned an error,
\* the Service is deleted if it exists and then created, and the result of the
\* create is returned.
ServiceRecreatedOnlyOnFailure ==
    (pc = "reconciledService" /\ ~args.ctxDone) =>
        LET r == res[1]
        IN /\ (args.get = Nil /\ args.update = Nil) =>
                  (r.calls = <<"updateService">> /\ r.err = Nil)
           /\ (args.get = Nil /\ args.update # Nil) =>
                  /\ r.calls = <<"updateService", "deleteServiceIfExists", "createService">>
                  /\ r.err = args.create
           /\ args.get # Nil =>
                  /\ r.calls = <<"deleteServiceIfExists", "createService">>
                  /\ r.err = args.create

\* The update of a fetched Service failed, the delete failed too, and the
\* create that followed succeeded.
ServiceRecreatedAfterFailedUpdate ==
    /\ pc = "reconciledService"
    /\ ~args.ctxDone
    /\ args.get = Nil
    /\ args.update # Nil
    /\ args.delete # Nil
    /\ args.create = Nil
    /\ Len(res[1].calls) = 3
    /\ res[1].err = Nil

\* C23: when the platform update of an existing StatefulSet fails,
\* updateStatefulSet calls, in this order, deleteStatefulSet,
\* reconcilePersistentVolumeClaims and createStatefulSet, and nothing else (no
\* PVC is deleted); it returns the result of that create, whatever the delete
\* returned.
RecreateAfterFailedUpdate ==
    (pc = "updatedStatefulSet" /\ ~args.ctxDone /\ args.update # Nil) =>
        /\ res[1].calls = <<"updateStatefulSet", "deleteStatefulSet",
                            "reconcilePersistentVolumeClaims", "createStatefulSet">>
        /\ res[1].err = args.create

\* The update failed, the delete failed too, and the create succeeded.
RecreatedStatefulSet ==
    /\ pc = "updatedStatefulSet"
    /\ ~args.ctxDone
    /\ args.update # Nil
    /\ args.delete # Nil
    /\ args.create = Nil
    /\ Len(res[1].calls) = 4
    /\ res[1].err = Nil

\* C24: when the StatefulSet of the host is the same as the desired one (and the
\* fetch does not fail), reconcileStatefulSet makes no call on it, changes no
\* Status counter and returns nil: reconcileHost goes on to the host's Service.
SameStatefulSetUntouched ==
    [][(/\ pc = "h_sts"
        /\ pc' # pc
        /\ ~ctxDone
        /\ nFail' = nFail
        /\ getStatefulSetStatus(sts[CurHost], Nil, CreateStatefulSet(new))
               = statefulSetStatusSame)
          => /\ sts' = sts
             /\ status' = status
             /\ stored' = stored
             /\ stepErr' = stepErr
             /\ hx'.stsCalls = <<>>
             /\ pc' = "h_svc"]_vars

\* reconcileStatefulSet returned for a host whose StatefulSet was the same.
SameStatefulSetSkipped ==
    /\ pc = "h_svc"
    /\ ~ctxDone
    /\ nFail = 0
    /\ update
    /\ hstatus = statefulSetStatusSame
    /\ hx.stsCalls = <<>>
    /\ sts[CurHost] = CreateStatefulSet(new)

\* C25: a successful creation of a StatefulSet adds one to AddedHostsCount and
\* leaves UpdatedHostsCount, a successful update adds one to UpdatedHostsCount
\* and leaves AddedHostsCount, a failed creation or update changes neither; a
\* fresh CHI created without a failure ends with AddedHostsCount equal to the
\* number of its hosts.
StatusCountersDistinct ==
    [][/\ (pc = "sts_create" /\ pc' # pc)
             => /\ status'.updated = status.updated
                /\ status'.added = status.added
                      + (IF ~sts[CurHost].present /\ sts'[CurHost].present THEN 1 ELSE 0)
       /\ (pc = "h_sts" /\ pc' # pc)
             => /\ status'.added = status.added
                /\ status'.updated \in {status.updated, status.updated + 1}
                /\ pc' = "sts_delete" => status'.updated = status.updated
                /\ sts'[CurHost] # sts[CurHost] => status'.updated = status.updated + 1
       /\ (nGet = 1 /\ item.type = "ReconcileCHI" /\ item.cmd = "add" /\ nFail = 0
              /\ ~ctxDone /\ pc = "forget")
             => status.added = Cardinality(HostsOf(new))]_vars

\* C26: a failed write of CHI.Status does not stop the operation: updateCHI goes
\* on to reconcile() after the write of ReconcileStart, finalizeCHI goes on to
\* deleteCHI and the finalizer removal after the write of DeleteStart.
StatusWriteTolerant ==
    [][/\ (/\ pc = "updateCHI"
           /\ pc' # pc
           /\ ~(update /\ item.old.rv = item.new.rv)
           /\ ~item.new.deleting
           /\ HasActionsToDo(oldCHI, new))
             => pc' = "walk"
       /\ (pc = "finalizeCHI" /\ pc' # pc /\ status' = DeleteStart)
             => pc' \in {"deleteWalk", "uninstallFinalizer"}]_vars

DeletionOrder ==
    [][pc = "deleteWalk" =>
        LET chi == IF item.cmd = "delete" THEN item.old.spec ELSE new
            at(f, s, r) == {i \in 1..Len(deleted) : deleted[i] = Step(f, s, r)}
            in(f, s, r) == at(f, s, r) # {}
            before(f, s, r, g, t, q) == \A i \in at(f, s, r), j \in at(g, t, q) : i < j
            objects(d) == Cardinality({i \in 1..Len(d) : d[i].f = "c.deleteHost"})
        IN /\ \A i \in 1..Len(deleted) :
                 deleted[i].f = "HostDeleteTables" =>
                     /\ CanDeleteAllPVCs(<<deleted[i].s, deleted[i].r>>)
                     /\ i < Len(deleted)
                     /\ deleted[i + 1] = Step("c.deleteHost", deleted[i].s, deleted[i].r)
           /\ \A h \in HostsOf(chi) :
                 /\ (in("c.deleteHost", h[1], h[2]) /\ CanDeleteAllPVCs(h))
                        => in("HostDeleteTables", h[1], h[2])
                 /\ before("HostDeleteTables", h[1], h[2], "c.deleteHost", h[1], h[2])
                 /\ before("c.deleteHost", h[1], h[2], "deleteServiceShard", h[1], 0)
                 /\ in("deleteServiceShard", h[1], 0) => in("deleteHost", h[1], h[2])
                 /\ before("deleteHost", h[1], h[2], "deleteServiceShard", h[1], 0)
           /\ \A s \in ShardsOf(chi) :
                 /\ in("deleteServiceCluster", 0, 0) => in("deleteServiceShard", s, 0)
                 /\ before("deleteServiceShard", s, 0, "deleteServiceCluster", 0, 0)
           /\ in("deleteConfigMapsCHI", 0, 0) =>
                  (ShardsOf(chi) # {} => in("deleteServiceCluster", 0, 0))
           /\ before("deleteServiceCluster", 0, 0, "deleteConfigMapsCHI", 0, 0)
           /\ in("deleteServiceCHI", 0, 0) => in("deleteConfigMapsCHI", 0, 0)
           /\ before("deleteConfigMapsCHI", 0, 0, "deleteServiceCHI", 0, 0)
           /\ status'.deleted = status.deleted + objects(deleted') - objects(deleted)]_vars

\* The cascade of a two-shard CHI is through: the tables were dropped on the
\* hosts of the first shard only and three hosts were counted.
DeletedWithAndWithoutTables ==
    /\ pc = "deleteWalk"
    /\ walk = <<>>
    /\ ~ctxDone
    /\ nFail = 0
    /\ new.layout = LayoutFull
    /\ status.deleted = 3
    /\ \E i \in 1..Len(deleted) : deleted[i] = Step("HostDeleteTables", 1, 2)
    /\ \A i \in 1..Len(deleted) : deleted[i] # Step("HostDeleteTables", 2, 1)
    /\ deleted[Len(deleted)] = Step("deleteServiceCHI", 0, 0)

\* C29: an error of HostCreateTables does not abort the pass. In reconcileHost
\* the host goes on to includeHost with no error recorded; when the schema
\* errors are the only failures and the context stays live, the walk records
\* no error, and the pass ends returning nil with every host of the CHI
\* Reconciled, reconcileCHIAuxObjectsFinal called last and the status at
\* ReconcileComplete.
SchemerErrorTolerated ==
    [][/\ (pc = "h_tables" /\ hx'.schemerErrs > hx.schemerErrs)
            => (pc' = "in_cm" /\ stepErr' = stepErr /\ walk' = walk)
       /\ (pc = "postAdded" /\ hx'.schemerErrs > hx.schemerErrs)
            => (pc' = "removeDeleted" /\ ret' = ret /\ announced' = announced)
       /\ (hx'.schemerErrs > 0 /\ nFail' = hx'.schemerErrs /\ ~ctxDone')
            => /\ stepErr' = Nil
               /\ pc' \in {"forget", "done"} =>
                     /\ ret' = Nil
                     /\ status' = ReconcileComplete(status')
                     /\ \A h \in HostsOf(new') : attrs'[h].reconciled
                     /\ calls'[Len(calls')].f = "reconcileCHIAuxObjectsFinal"]_vars

\* A pass in which HostCreateTables failed during reconcileHost has returned.
SchemerErrorInReconcileHost ==
    /\ pc = "forget"
    /\ hx.schemerErrs = 1
    /\ nFail = 1
    /\ ~ctxDone
    /\ \E h \in HostsOf(new) : tables[h] = 1 /\ h \notin AddedHosts(oldCHI, new)
    /\ \A h \in HostsOf(new) : tables[h] = 1 => h \notin AddedHosts(oldCHI, new)

\* C30: when updateCHI has stamped the attributes and reconcile() is about to
\* start, every host of new carries Add, Modify or Unclear; Unclear is on
\* exactly the hosts with neither Add nor Modify; Migrate is on every host when
\* the operation is an update and on no host otherwise.
AttributesStamped ==
    [][(pc = "updateCHI" /\ pc' = "walk") =>
          \A h \in HostsOf(new) :
              /\ attrs'[h].add \/ attrs'[h].modify \/ attrs'[h].unclear
              /\ attrs'[h].unclear <=> (~attrs'[h].add /\ ~attrs'[h].modify)
              /\ attrs'[h].migrate <=> update]_vars

\* An update was stamped: one host is Modify, another Add, all are Migrate.
StampedUpdate ==
    /\ pc = "walk"
    /\ calls = <<>>
    /\ update
    /\ \E h \in HostsOf(new) : attrs[h].modify /\ ~attrs[h].unclear
    /\ \E h \in HostsOf(new) : attrs[h].add
    /\ \A h \in HostsOf(new) : attrs[h].migrate

\* C31: reconcileConfigMap without update issues no write for a ConfigMap that
\* exists and creates one that is not found; with update it updates one that
\* exists; createConfigMap is called exactly when the fetch, or with update the
\* update, reports not-found, and its result is returned.
\* reconcileCHIAuxObjectsPreliminary never calls updateConfigMap, and for a
\* stopped CHI it calls deleteServiceCHI and not reconcileService.
ConfigMapCreateOnly ==
    LET has(r, f) == \E i \in 1..Len(r.calls) : r.calls[i].f = f
        r == res[1]
        o == args.common
    IN /\ (pc = "reconciledConfigMap" /\ ~args.ctxDone) =>
             /\ (~args.upd /\ o.get = Nil) =>
                    (r.calls = <<ConfigMapCall("getConfigMap", "common")>> /\ r.err = Nil)
             /\ ~args.upd => ~has(r, "updateConfigMap")
             /\ (args.upd /\ o.get = Nil) => has(r, "updateConfigMap")
             /\ has(r, "createConfigMap") <=>
                    \/ o.get = "NotFound"
                    \/ (args.upd /\ o.get = Nil /\ o.update = "NotFound")
             /\ has(r, "createConfigMap") => r.err = o.create
       /\ (pc = "reconciledAuxPreliminary" /\ ~args.ctxDone) =>
             /\ ~has(r, "updateConfigMap")
             /\ has(r, "deleteServiceCHI") <=> args.stopped
             /\ has(r, "reconcileService") <=> ~args.stopped
             /\ (/\ args.stopped \/ args.service = Nil
                 /\ o.get = "NotFound" /\ o.create = Nil
                 /\ args.users.get = "NotFound")
                    => /\ r.calls[3] = ConfigMapCall("createConfigMap", "common")
                       /\ r.calls[5] = ConfigMapCall("createConfigMap", "users")
                       /\ r.err = args.users.create

\* With update, the ConfigMap was fetched, the update reported not-found, and
\* the ConfigMap was created.
ConfigMapCreatedAfterUpdate ==
    /\ pc = "reconciledConfigMap"
    /\ ~args.ctxDone
    /\ args.upd
    /\ args.common.get = Nil
    /\ args.common.update = "NotFound"
    /\ res[1].calls = <<ConfigMapCall("getConfigMap", "common"),
                        ConfigMapCall("updateConfigMap", "common"),
                        ConfigMapCall("createConfigMap", "common")>>
    /\ res[1].err = Nil

\* C32: the post-process of updateCHI runs only after reconcile() returned nil.
\* When reconcile() returns an error updateCHI returns at once, with the
\* status, the watch, the platform objects and the HostCreateTables calls as
\* they were; a host of the Removed set loses its StatefulSet in an update
\* pass, and the status becomes Completed, only in the post-process and with
\* reconcile() having returned nil.
PostProcessOnlyAfterReconcile ==
    [][/\ pc \in {"postAdded", "removeDeleted"} => (stepErr = Nil /\ reconcileRet = Nil)
       /\ (pc = "walk" /\ walk = <<>> /\ stepErr # Nil /\ pc' # pc)
             => /\ pc' = "forget"
                /\ status' = status /\ stored' = stored /\ watched' = watched
                /\ platformVars' = platformVars /\ tables' = tables
                /\ removed' = <<>>
       /\ (/\ pc \in ({"walk", "postAdded", "removeDeleted"} \cup HostPcs)
           /\ \/ \E h \in RemovedHosts(oldCHI, new) : sts[h].present /\ ~sts'[h].present
              \/ status.phase # "Completed" /\ status'.phase = "Completed")
             => (pc = "removeDeleted" /\ reconcileRet = Nil /\ stepErr = Nil)]_vars

\* An update that removes hosts has returned after reconcile() failed: the
\* hosts to remove still have their StatefulSets and the status is not
\* Completed.
FailedUpdateKeepsRemoved ==
    /\ pc = "forget"
    /\ item.type = "ReconcileCHI"
    /\ update
    /\ reconcileRet # Nil
    /\ RemovedHosts(oldCHI, new) # {}
    /\ \A h \in RemovedHosts(oldCHI, new) : sts[h].present
    /\ status.phase = "InProgress"
    /\ \A h \in AllHosts : tables[h] = 0

\* C33: updateCHI with old and new both present and of one ResourceVersion
\* returns nil with nothing changed: the CHI object and its finalizers, the
\* status, the platform objects, the watch and the host attributes stay as they
\* were, no call fails and finalizeCHI is not entered, also when new carries a
\* deletion timestamp.
SameResourceVersionNoOp ==
    [][(/\ pc = "updateCHI" /\ pc' # pc
        /\ item.old.present /\ item.new.present /\ item.old.rv = item.new.rv)
          => /\ pc' = "forget"
             /\ ret' = Nil
             /\ handled' = handled
             /\ chiObj' = chiObj
             /\ status' = status /\ stored' = stored
             /\ platformVars' = platformVars
             /\ watched' = watched
             /\ passVars' = passVars
             /\ announced' = announced
             /\ nFail' = nFail]_vars

\* An update item of a CHI under deletion, with the finalizer and an unchanged
\* ResourceVersion, was processed: the hosts are still there.
SameResourceVersionDeleting ==
    /\ pc = "forget"
    /\ item.type = "ReconcileCHI"
    /\ item.cmd = "update"
    /\ item.old.rv = item.new.rv
    /\ item.new.deleting
    /\ item.new.fin
    /\ chiObj.fin
    /\ deleted = <<>>
    /\ \E h \in AllHosts : sts[h].present

\* C34: in a reconcile pass a host becomes Reconciled only at the end of its
\* own reconcileHost, after includeHost, with no error recorded in the walk and
\* with Add cleared; Add is cleared before includeHost, so the topology
\* includeHost applies lists the host; a reconcileHost that returns an error
\* leaves the attributes of every host as they were, the host not Reconciled.
ReconciledOnlyAfterInclude ==
    [][(pc \in ({"walk"} \cup HostPcs)) =>
         (/\ \A h \in AllHosts :
              (attrs'[h].reconciled /\ ~attrs[h].reconciled)
                    => /\ pc \in {"in_cm", "in_wait"}
                       /\ h = CurHost
                       /\ stepErr = Nil /\ stepErr' = Nil
                       /\ ~attrs'[h].add
          /\ pc = "in_cm" => ~attrs[CurHost].add
          /\ (pc = "in_cm" /\ pc' # pc /\ ~ctxDone /\ hx'.inclApplied)
                => /\ CurHost \in cmCommon'.listed
                   /\ CurHost \notin cmCommon'.excl
          /\ (pc \in HostPcs /\ stepErr = Nil /\ stepErr' # Nil)
                => /\ attrs' = attrs
                   /\ ~attrs'[CurHost].reconciled
                   /\ pc' = "walk")]_vars

\* A host that came with Add went through reconcileHost: it is Reconciled,
\* Add is cleared and the stored topology lists it.
AddedHostIncluded ==
    /\ pc = "walk"
    /\ ~ctxDone
    /\ nFail = 0
    /\ hx.inclApplied
    /\ hx.h \in AddedHosts(oldCHI, new)
    /\ attrs[hx.h].reconciled
    /\ ~attrs[hx.h].add
    /\ hx.h \in cmCommon.listed

\* C35: deleteHost acts only on a host whose StatefulSet it could fetch. When
\* the StatefulSet is not there or the fetch fails, or the context is done, it
\* calls neither HostDeleteTables nor c.deleteHost, leaves the host's objects
\* and DeletedHostsCount as they were and returns nil; otherwise it calls
\* c.deleteHost and increments DeletedHostsCount by one, whether or not the
\* host's objects are gone afterwards.
DeleteHostNeedsStatefulSet ==
    [][(pc = "deleteWalk" /\ walk # <<>> /\ CurStep.f = "deleteHost" /\ walk' # walk) =>
          LET called == Len(deleted') > Len(deleted) + 1
          IN /\ (~sts[CurHost].present \/ ctxDone) => ~called
             /\ ~called => /\ deleted' \in {deleted, Append(deleted, CurStep)}
                           /\ sts' = sts /\ cmHost' = cmHost /\ svc' = svc
                           /\ status' = status /\ stored' = stored
                           /\ walk' = Tail(walk)
             /\ called => /\ sts[CurHost].present
                          /\ deleted'[Len(deleted')] = Step("c.deleteHost", CurStep.s, CurStep.r)
                          /\ status'.deleted = status.deleted + 1
                          /\ status' = [status EXCEPT !.deleted = @ + 1]]_vars

\* The StatefulSet of the first host could not be fetched: deleteHost was
\* called for the host and made no call, the host's objects are still there
\* and no host is counted.
DeleteHostSkippedOnFetchError ==
    /\ pc = "deleteWalk"
    /\ ~ctxDone
    /\ nFail = 1
    /\ Len(deleted) = 1
    /\ deleted[1] = Step("deleteHost", 1, 1)
    /\ sts[<<1, 1>>].present
    /\ <<1, 1>> \in cmHost
    /\ ServiceHost(<<1, 1>>) \in svc
    /\ status.deleted = 0

====
